--------------------------- MODULE ConvertProofs ---------------------------
(* Proofs about the control of module Convert, for any files, converter    *)
(* lists, contents, buffer sizes and faults.                               *)
EXTENDS Convert, FoldLemmas, SequenceTheorems

(***************************************************************************)
(* The inductive invariant behind OnlyOpenStreams: a failure closes its    *)
(* file, sets err to ERR_IOFAIL and goes to a point that only returns.     *)
(***************************************************************************)
ReturnPoints == {"finish", "refuse", "returned", "ic_saved", "ic_free",
                 "rc_done", "rd_free", "ex_saved", "ex_free", "stopped"}

TempPoints == {"ic_save", "ic_saved", "ic_rewind", "ic_trunc", "ic_read",
               "ic_conv", "ic_full", "ic_write", "rc_from", "rc_to",
               "rc_trunc", "rd_seek", "rd_task", "rd_file", "rd_rewind",
               "rd_trunc"}

BetweenFiles == {"main", "stopped", "finish"}
BeforeConverters == BetweenFiles \cup
  {"sample", "analyse", "try", "refuse", "copy_write", "copy_read"}

CallOK ==
  \/ /\ call.from = h /\ call.to = h /\ h = Std
     /\ \/ call.ret \in {"finish", "refuse"}
        \/ call.ret = "returned" /\ todo # <<>>
  \/ /\ call.from = h /\ call.to = Temp /\ Temp \in open
     /\ call.ret \in {"ic_saved", "ex_saved"} /\ todo # <<>>
  \/ /\ call.from = Temp /\ call.to = h /\ Temp \in open
     /\ call.ret \in {"rc_done", "rd_free"} /\ todo # <<>>

StreamInv ==
  /\ TypeOK
  /\ err = "IOFAIL" => pc \in ReturnPoints
  /\ pc \notin BetweenFiles /\ err # "IOFAIL" => Usable(h)
  /\ pc \in TempPoints /\ err # "IOFAIL" => Temp \in open
  /\ pc \in {"copy_write", "copy_read"} => CallOK
  /\ pc \notin BeforeConverters => todo # <<>>

-----------------------------------------------------------------------------
(* A new temporary file, unlinked or not, is an open one. *)

Opened ==
  open' = open \cup {Temp} /\ linked' \in BOOLEAN /\ status' = status

LEMMA TempFrame == ASSUME NEW u \in BOOLEAN, FileTemporary(u) PROVE Opened
<1>1. open' = open \cup {Temp} /\ status' = status
  BY Zenon DEF FileTemporary
<1>2. linked' \in BOOLEAN
  BY Zenon DEF FileTemporary
<1> QED BY <1>1, <1>2, Zenon DEF Opened
-----------------------------------------------------------------------------
LEMMA InitStream == Init => StreamInv
<1> SUFFICES ASSUME Init PROVE StreamInv
  OBVIOUS
<1>1. /\ setup \in Setups
      /\ open = {} /\ linked = FALSE /\ status = "running"
      /\ pc = "main" /\ err = "OK" /\ cur = 1 /\ todo = <<>>
      /\ call.ret = "finish" /\ call.buf = "main"
  BY DEF Init
<1>2. cur \in 1 .. Len(setup.args) + 1
  BY <1>1, ConvertAssumption DEF Setups
<1>3. linked \in BOOLEAN
  BY <1>1, Zenon
<1>4. todo \in Seq(Converters)
  BY <1>1
<1> QED
  BY <1>1, <1>2, <1>3, <1>4
     DEF StreamInv, TypeOK, ReturnPoints, TempPoints, BetweenFiles,
         BeforeConverters, Labels, Errors, ExitCodes, Buffers

LEMMA StepStream == StreamInv /\ [Next]_vars => StreamInv'
<1> SUFFICES ASSUME StreamInv, [Next]_vars PROVE StreamInv'
  OBVIOUS
<1> USE FilebufAssumption, ConvertAssumption
    DEF StreamInv, TypeOK, ReturnPoints, TempPoints, BetweenFiles,
        BeforeConverters, Labels, Errors, ExitCodes, Buffers, Converters,
        CallOK, h, Setups, Usable, Std, Temp, ctlrest, Jump, Goto, Try, Call, Stop,
        FileClose
<1>1. CASE OpenFile
  BY <1>1 DEF OpenFile, FileOpen, FileOpenFails, Report
<1>2. CASE ReadSample
  BY <1>2 DEF ReadSample, FileRead, FileReadFails
<1>3. CASE Analyse
  BY <1>3 DEF Analyse, fbvars
<1>4. CASE FinishFile
  BY <1>4 DEF FinishFile, Report
<1>5. CASE Exit
  BY <1>5 DEF Exit, ExitStatus
<1>6. CASE TryConverter
  BY <1>6 DEF TryConverter, fbvars
<1>7. CASE Refuse
  BY <1>7 DEF Refuse, fbvars
<1>8. CASE Returned
  <2>1. Tail(todo) \in Seq(Converters)
    <3>1. todo \in Seq(Converters) /\ todo # <<>>
      BY <1>8 DEF Returned
    <3> QED BY <3>1, HeadTailProperties
  <2>2. CASE UNCHANGED todo
    BY <1>8, <2>2 DEF Returned, fbvars
  <2>3. CASE todo' = Tail(todo) /\ err = "CANNOT"
    BY <1>8, <2>1, <2>3 DEF Returned, fbvars
  <2> QED BY <1>8, <2>2, <2>3 DEF Returned
<1>9. CASE CopyWrite
  BY <1>9 DEF CopyWrite, FileWrite, FileWriteFails
<1>10. CASE CopyRead
  BY <1>10 DEF CopyRead, FileRead, FileReadFails
<1>11. CASE CopyFlushFails
  BY <1>11 DEF CopyFlushFails, FlushLoses
<1>12. CASE Builtin
  BY <1>12 DEF Builtin, fbvars
<1>13. CASE BuiltinSeek
  BY <1>13 DEF BuiltinSeek, FileSeek, FileSeekFails
<1>14. CASE BuiltinRead
  BY <1>14 DEF BuiltinRead, FileRead, FileReadFails
<1>15. CASE BuiltinSeekBack
  BY <1>15 DEF BuiltinSeekBack, FileSeek, FileSeekFails
<1>16. CASE BuiltinWrite
  BY <1>16 DEF BuiltinWrite, FileWrite, FileWriteFails
<1>17. CASE BuiltinSync
  BY <1>17 DEF BuiltinSync, FileSeek, FileSeekFails
<1>18. CASE IconvStart
  BY <1>18 DEF IconvStart, fbvars
<1>19. CASE IconvTemp
  <2>1. CASE FileTemporary(TRUE) /\ pc = "ic_temp" /\ Jump("ic_save", err)
    <3>1. Opened
      BY <2>1, TempFrame, Zenon
    <3> QED BY <2>1, <3>1 DEF Opened
  <2>2. CASE /\ pc = "ic_temp" /\ FileTemporaryFails
             /\ \E l \in {"ic_free", "rd_free", "returned"} : Jump(l, "IOFAIL")
    BY <2>2 DEF FileTemporaryFails, fbvars
  <2>3. CASE pc = "ic_temp" /\ FileTemporaryExits /\ Stop
    <3>1. linked' \in BOOLEAN
      BY <2>3, Zenon DEF FileTemporaryExits
    <3> QED BY <2>3, <3>1 DEF FileTemporaryExits
  <2> QED BY <1>19, <2>1, <2>2, <2>3, Zenon DEF IconvTemp, Try
<1>20. CASE IconvSave
  BY <1>20 DEF IconvSave, FileWrite, FileWriteFails
<1>21. CASE IconvSaved
  BY <1>21 DEF IconvSaved, FileSeek, FileSeekFails, fbvars
<1>22. CASE IconvRewind
  BY <1>22 DEF IconvRewind, FileSeek, FileSeekFails
<1>23. CASE IconvTruncate
  BY <1>23 DEF IconvTruncate, FileTruncate, FileTruncateFails, fbvars
<1>24. CASE IconvRead
  BY <1>24 DEF IconvRead, FileRead, FileReadFails
<1>25. CASE IconvReadAborts
  BY <1>25 DEF IconvReadAborts
<1>26. CASE IconvCharacter
  <2>1. /\ pc = "ic_conv" /\ UNCHANGED <<open, linked, status>>
        /\ pc' = pc \/ Goto("ic_full")
        /\ UNCHANGED <<setup, orig, err, cur, req, todo, fsize, call, eof, ok,
                       done>>
    BY <1>26, Zenon DEF IconvCharacter
  <2> QED BY <2>1
<1>27. CASE IconvFull
  BY <1>27 DEF IconvFull, FileWrite, FileWriteFails
<1>28. CASE IconvBlockEnd
  BY <1>28 DEF IconvBlockEnd
<1>29. CASE IconvWrite
  BY <1>29 DEF IconvWrite, FileWrite, FileWriteFails
<1>30. CASE IconvMalformed
  BY <1>30 DEF IconvMalformed, fbvars
<1>31. CASE RecoverSeekFrom
  BY <1>31 DEF RecoverSeekFrom, FileSeek, FileSeekFails
<1>32. CASE RecoverSeekTo
  BY <1>32 DEF RecoverSeekTo, FileSeek, FileSeekFails
<1>33. CASE RecoverTruncate
  BY <1>33 DEF RecoverTruncate, FileTruncateFails
<1>34. CASE RecoverDone
  BY <1>34 DEF RecoverDone, fbvars
<1>35. CASE IconvFree
  BY <1>35 DEF IconvFree, FreeTemp
<1>36. CASE RecodeStart
  BY <1>36 DEF RecodeStart, fbvars, FileSeekFails
<1>37. CASE RecodeTemp
  <2>1. CASE FileTemporary(TRUE) /\ pc = "rd_temp" /\ Jump("rd_seek", err)
    <3>1. Opened
      BY <2>1, TempFrame, Zenon
    <3> QED BY <2>1, <3>1 DEF Opened
  <2>2. CASE /\ pc = "rd_temp" /\ FileTemporaryFails
             /\ \E l \in {"ic_free", "rd_free", "returned"} : Jump(l, "IOFAIL")
    BY <2>2 DEF FileTemporaryFails, fbvars
  <2>3. CASE pc = "rd_temp" /\ FileTemporaryExits /\ Stop
    <3>1. linked' \in BOOLEAN
      BY <2>3, Zenon DEF FileTemporaryExits
    <3> QED BY <2>3, <3>1 DEF FileTemporaryExits
  <2> QED BY <1>37, <2>1, <2>2, <2>3, Zenon DEF RecodeTemp, Try
<1>38. CASE RecodeSeek
  BY <1>38 DEF RecodeSeek, FileSeek, FileSeekFails
<1>39. CASE RecodeTask
  BY <1>39 DEF RecodeTask
<1>40. CASE RecodeRewindFile
  BY <1>40 DEF RecodeRewindFile, FileSeek, FileSeekFails
<1>41. CASE RecodeRewindTemp
  BY <1>41 DEF RecodeRewindTemp, FileSeek, FileSeekFails
<1>42. CASE RecodeTruncate
  BY <1>42 DEF RecodeTruncate, FileTruncate, FileTruncateFails
<1>43. CASE RecodeFree
  BY <1>43 DEF RecodeFree, FreeTemp
<1>44. CASE RecodeBuffer
  BY <1>44 DEF RecodeBuffer, RecodeToStdout
<1>45. CASE RecodeRest
  BY <1>45 DEF RecodeRest, RecodeToStdout
<1>46. CASE RecodeSystemError
  BY <1>46 DEF RecodeSystemError, fbvars
<1>47. CASE ExternStart
  BY <1>47 DEF ExternStart, fbvars
<1>48. CASE ExternTemp
  <2>1. CASE /\ FileTemporary(FALSE) /\ pc = "ex_temp"
             /\ Call(h, Temp, FALSE, "main", "ex_saved")
    <3>1. Opened
      BY <2>1, TempFrame, Zenon
    <3> QED BY <2>1, <3>1 DEF Opened
  <2>2. CASE /\ pc = "ex_temp" /\ FileTemporaryFails
             /\ \E l \in {"ic_free", "rd_free", "returned"} : Jump(l, "IOFAIL")
    BY <2>2 DEF FileTemporaryFails, fbvars
  <2>3. CASE pc = "ex_temp" /\ FileTemporaryExits /\ Stop
    <3>1. linked' \in BOOLEAN
      BY <2>3, Zenon DEF FileTemporaryExits
    <3> QED BY <2>3, <3>1 DEF FileTemporaryExits
  <2> QED BY <1>48, <2>1, <2>2, <2>3, Zenon DEF ExternTemp
<1>49. CASE ExternSaved
  BY <1>49 DEF ExternSaved, fbvars
<1>50. CASE ExternRun
  <2>1. /\ pc = "ex_run" /\ UNCHANGED <<mem, open, linked, status>>
        /\ \E l \in {"ex_free", "returned"}, e \in {"OK", "CANNOT", "EXEC"} :
             Jump(l, e)
    BY <1>50, Zenon DEF ExternRun
  <2> QED BY <2>1
<1>51. CASE ExternDies
  BY <1>51 DEF ExternDies
<1>52. CASE ExternFree
  <2>1. linked' \in BOOLEAN
    BY <1>52, Zenon DEF ExternFree
  <2> QED BY <1>52, <2>1 DEF ExternFree
<1>53. CASE IconvDies
  BY <1>53 DEF IconvDies
<1>54. CASE RecodeNoLibrary
  BY <1>54 DEF RecodeNoLibrary, fbvars
<1>55. CASE UNCHANGED vars
  BY <1>55 DEF vars, fbvars, ctlvars
<1> QED
  BY <1>1, <1>2, <1>3, <1>4, <1>5, <1>6, <1>7, <1>8, <1>9, <1>10, <1>11,
     <1>12, <1>13, <1>14, <1>15, <1>16, <1>17, <1>18, <1>19, <1>20, <1>21,
     <1>22, <1>23, <1>24, <1>25, <1>26, <1>27, <1>28, <1>29, <1>30, <1>31,
     <1>32, <1>33, <1>34, <1>35, <1>36, <1>37, <1>38, <1>39, <1>40, <1>41,
     <1>42, <1>43, <1>44, <1>45, <1>46, <1>47, <1>48, <1>49, <1>50, <1>51,
     <1>52, <1>53, <1>54, <1>55
  DEF Next, Main, Choose, Copy, BuiltinStep, IconvStep, Recover, RecodeStep,
      ExternStep
-----------------------------------------------------------------------------
(* Types and labels hold in every reachable state of the pipeline, for any  *)
(* command line, file contents, buffer sizes and faults.                    *)
THEOREM TypeCorrect == Spec => []TypeOK
<1>1. StreamInv => TypeOK
  BY DEF StreamInv
<1> QED BY <1>1, InitStream, StepStream, PTL DEF Spec

LEMMA StreamImplies == StreamInv => OnlyOpenStreams
<1> SUFFICES ASSUME StreamInv PROVE OnlyOpenStreams
  OBVIOUS
<1>1. pc \notin ReturnPoints => err # "IOFAIL"
  BY DEF StreamInv
<1>2. pc \in {"copy_write", "copy_read"} => Usable(call.from) /\ Usable(call.to)
  BY <1>1 DEF StreamInv, CallOK, ReturnPoints, BetweenFiles, Usable
<1> QED
  BY <1>1, <1>2 DEF StreamInv, OnlyOpenStreams, ReturnPoints, BetweenFiles,
                    TempPoints

(* No step of process_file(), convert() or a converter reads, writes, seeks *)
(* or truncates a File whose stream a failed helper has already closed      *)
(* (src/filebuf.c closes its file on every error): whatever fails, and      *)
(* however often.                                                           *)
THEOREM StreamsStayOpen == Spec => []OnlyOpenStreams
<1> QED BY InitStream, StepStream, StreamImplies, PTL DEF Spec
-----------------------------------------------------------------------------
(* The temporary file handed to the external converter has a name only     *)
(* between its creation and ex_free; a program that dies there stops.      *)
NamedPoints == {"ex_saved", "ex_run", "ex_free"}

LinkInv ==
  /\ pc = "ex_temp" => h = Std
  /\ linked => \/ pc \in NamedPoints /\ h = Std
               \/ /\ pc \in {"copy_write", "copy_read"} /\ h = Std
                  /\ call.ret = "ex_saved"
               \/ pc = "stopped" /\ status \in {"trouble", "aborted"}

Elsewhere == pc \notin NamedPoints \cup {"copy_write", "copy_read", "stopped"}

(* Every step outside copy_and_convert() and convert_external() but the    *)
(* creation of a temporary file leaves the name alone.                     *)
LEMMA LinkKept ==
  ASSUME StreamInv,
         \/ Main \/ Choose \/ BuiltinStep
         \/ IconvStep /\ ~IconvTemp
         \/ RecodeStep /\ ~RecodeTemp
  PROVE  linked' = linked /\ Elsewhere /\ pc' # "ex_temp"
<1> USE DEF Elsewhere, NamedPoints, Try, Jump, Goto, Stop, Call, Report
<1>1. CASE Main
  BY <1>1, Zenon
     DEF Main, OpenFile, ReadSample, Analyse, FinishFile, Exit,
         FileOpen, FileOpenFails, FileRead, FileReadFails, FileWrite,
         FileWriteFails, FileSeek, FileSeekFails, FileTruncate,
         FileTruncateFails, FileClose, FlushLoses, fbvars
<1>2. CASE Choose
  <2>1. todo # <<>> => Head(todo) # "ex_temp"
    <3>1. todo \in Seq(Converters)
      BY DEF StreamInv, TypeOK
    <3>2. todo # <<>> => Head(todo) \in Converters
      BY <3>1, HeadTailProperties
    <3> QED BY <3>2 DEF Converters
  <2> QED BY <1>2, <2>1 DEF Choose, TryConverter, Refuse, Returned, fbvars
<1>3. CASE BuiltinStep
  BY <1>3
     DEF BuiltinStep, Builtin, BuiltinSeek, BuiltinRead, BuiltinSeekBack,
         BuiltinWrite, BuiltinSync,
         FileOpen, FileOpenFails, FileRead, FileReadFails, FileWrite,
         FileWriteFails, FileSeek, FileSeekFails, FileTruncate,
         FileTruncateFails, FileClose, FlushLoses, fbvars
<1>4. CASE IconvStep /\ ~IconvTemp
  <2>1. CASE Recover
    BY <2>1
       DEF Recover, RecoverSeekFrom, RecoverSeekTo, RecoverTruncate,
           RecoverDone, FileSeek, FileSeekFails, FileTruncateFails, fbvars
  <2>2. CASE IconvCharacter
    BY <2>2 DEF IconvCharacter
  <2> QED
    BY <1>4, <2>1, <2>2
       DEF IconvStep, IconvStart, IconvDies, IconvSave, IconvSaved, IconvRewind,
           IconvTruncate, IconvRead, IconvReadAborts, IconvFull,
           IconvBlockEnd, IconvWrite, IconvMalformed, IconvFree, FreeTemp,
         FileOpen, FileOpenFails, FileRead, FileReadFails, FileWrite,
         FileWriteFails, FileSeek, FileSeekFails, FileTruncate,
         FileTruncateFails, FileClose, FlushLoses, fbvars
<1>5. CASE RecodeStep /\ ~RecodeTemp
  BY <1>5
     DEF RecodeStep, RecodeStart, RecodeNoLibrary, RecodeSeek, RecodeTask,
         RecodeRewindFile, RecodeRewindTemp, RecodeTruncate, RecodeFree, FreeTemp,
         RecodeBuffer, RecodeRest, RecodeToStdout, RecodeSystemError,
         FileOpen, FileOpenFails, FileRead, FileReadFails, FileWrite,
         FileWriteFails, FileSeek, FileSeekFails, FileTruncate,
         FileTruncateFails, FileClose, FlushLoses, fbvars
<1> QED BY <1>1, <1>2, <1>3, <1>4, <1>5

(* The program has a status exactly when it has stopped. *)
Running == pc # "stopped" => status = "running"

LEMMA StepRunning == ASSUME Running, [Next]_vars PROVE Running'
<1> USE DEF Running, Goto, Jump, Stop, Call, Try, Report
<1>1. CASE Main
  BY <1>1 DEF Main, OpenFile, ReadSample, Analyse, FinishFile, Exit
<1>2. CASE Choose
  BY <1>2 DEF Choose, TryConverter, Refuse, Returned
<1>3. CASE Copy
  BY <1>3 DEF Copy, CopyWrite, CopyRead, CopyFlushFails
<1>4. CASE BuiltinStep
  BY <1>4
     DEF BuiltinStep, Builtin, BuiltinSeek, BuiltinRead, BuiltinSeekBack,
         BuiltinWrite, BuiltinSync
<1>5. CASE IconvStep
  BY <1>5
     DEF IconvStep, IconvStart, IconvDies, IconvTemp, IconvSave, IconvSaved,
         IconvRewind, IconvTruncate, IconvRead, IconvReadAborts, IconvCharacter, IconvFull,
         IconvBlockEnd, IconvWrite, IconvMalformed, IconvFree, FreeTemp,
         Recover, RecoverSeekFrom, RecoverSeekTo, RecoverTruncate, RecoverDone
<1>6. CASE RecodeStep
  BY <1>6
     DEF RecodeStep, RecodeStart, RecodeNoLibrary, RecodeTemp, RecodeSeek,
         RecodeTask, RecodeRewindFile, RecodeRewindTemp, RecodeTruncate, RecodeFree,
         FreeTemp, RecodeBuffer, RecodeRest, RecodeSystemError
<1>7. CASE ExternStep
  BY <1>7
     DEF ExternStep, ExternStart, ExternTemp, ExternSaved, ExternRun,
         ExternDies, ExternFree
<1>8. CASE UNCHANGED vars
  BY <1>8 DEF vars, fbvars, ctlvars
<1> QED BY <1>1, <1>2, <1>3, <1>4, <1>5, <1>6, <1>7, <1>8 DEF Next

(* The command line and the faults of a run do not change. *)
LEMMA SetupFixed == ASSUME [Next]_vars PROVE setup' = setup
<1> USE DEF ctlrest, Goto, Jump, Stop, Call, Try, Report
<1>1. CASE Main
  BY <1>1 DEF Main, OpenFile, ReadSample, Analyse, FinishFile, Exit
<1>2. CASE Choose
  BY <1>2 DEF Choose, TryConverter, Refuse, Returned
<1>3. CASE Copy
  BY <1>3 DEF Copy, CopyWrite, CopyRead, CopyFlushFails
<1>4. CASE BuiltinStep
  BY <1>4
     DEF BuiltinStep, Builtin, BuiltinSeek, BuiltinRead, BuiltinSeekBack,
         BuiltinWrite, BuiltinSync
<1>5. CASE IconvStep
  BY <1>5
     DEF IconvStep, IconvStart, IconvDies, IconvTemp, IconvSave, IconvSaved,
         IconvRewind, IconvTruncate, IconvRead, IconvReadAborts, IconvCharacter, IconvFull,
         IconvBlockEnd, IconvWrite, IconvMalformed, IconvFree, FreeTemp,
         Recover, RecoverSeekFrom, RecoverSeekTo, RecoverTruncate, RecoverDone
<1>6. CASE RecodeStep
  BY <1>6
     DEF RecodeStep, RecodeStart, RecodeNoLibrary, RecodeTemp, RecodeSeek,
         RecodeTask, RecodeRewindFile, RecodeRewindTemp, RecodeTruncate, RecodeFree,
         FreeTemp, RecodeToStdout, RecodeBuffer, RecodeRest, RecodeSystemError
<1>7. CASE ExternStep
  BY <1>7
     DEF ExternStep, ExternStart, ExternTemp, ExternSaved, ExternRun,
         ExternDies, ExternFree
<1>8. CASE UNCHANGED vars
  BY <1>8 DEF vars, fbvars, ctlvars
<1> QED BY <1>1, <1>2, <1>3, <1>4, <1>5, <1>6, <1>7, <1>8 DEF Next

LEMMA StepLink ==
  ASSUME "unlink" \notin faults, StreamInv, Running, LinkInv, [Next]_vars
  PROVE  LinkInv'
<1> USE DEF LinkInv, NamedPoints, Elsewhere, Goto, Jump, Stop, Call, h, ctlrest
<1>1. CASE \/ Main \/ Choose \/ BuiltinStep
           \/ IconvStep /\ ~IconvTemp
           \/ RecodeStep /\ ~RecodeTemp
  BY <1>1, LinkKept
<1>2. CASE IconvTemp \/ RecodeTemp
  <2>0. pc' # "ex_temp"
    BY <1>2 DEF IconvTemp, RecodeTemp, Try
  <2>1. CASE linked' = FALSE
    BY <2>0, <2>1
  <2>2. CASE FileTemporaryFails /\ pc \in {"ic_temp", "rd_temp"}
    BY <2>0, <2>2 DEF FileTemporaryFails, fbvars
  <2>3. CASE FileTemporaryExits /\ Stop
    BY <2>3 DEF FileTemporaryExits
  <2> QED
    BY <1>2, <2>1, <2>2, <2>3, Zenon
       DEF IconvTemp, RecodeTemp, Try, FileTemporary
<1>3. CASE Copy
  <2>1. linked' = linked /\ (status' = status \/ status' = "trouble")
    BY <1>3
       DEF Copy, CopyWrite, CopyRead, CopyFlushFails, Try, FileWrite,
           FileWriteFails, FileRead, FileReadFails, FileClose, FlushLoses
  <2>2. /\ UNCHANGED <<call, cur, setup>> /\ pc \in {"copy_write", "copy_read"}
        /\ Goto("copy_write") \/ Goto("copy_read") \/ Goto(call.ret)
    BY <1>3 DEF Copy, CopyWrite, CopyRead, CopyFlushFails, Try
  <2>3. CallOK
    BY <2>2 DEF StreamInv
  <2> QED BY <2>1, <2>2, <2>3 DEF Running, CallOK
<1>4. CASE ExternStep
  <2>1. CASE ExternStart
    BY <2>1 DEF ExternStart, fbvars
  <2>2. CASE ExternTemp
    <3>1. CASE Call(h, Temp, FALSE, "main", "ex_saved") /\ status' = status
      BY <2>2, <3>1 DEF ExternTemp, Running
    <3>2. CASE FileTemporaryFails /\ Jump("returned", "IOFAIL")
      BY <2>2, <3>2 DEF ExternTemp, FileTemporaryFails, fbvars
    <3>3. CASE FileTemporaryExits /\ Stop
      BY <3>3 DEF FileTemporaryExits
    <3> QED
      BY <2>2, <3>1, <3>2, <3>3, Zenon DEF ExternTemp, FileTemporary
  <2>3. CASE ExternSaved
    BY <2>3 DEF ExternSaved, fbvars, Running
  <2>4. CASE ExternRun
    <3>1. /\ linked' = linked /\ status' = status /\ pc = "ex_run"
          /\ \E e : Jump(IF h = Std THEN "ex_free" ELSE "returned", e)
      BY <2>4, Zenon DEF ExternRun
    <3> QED BY <3>1 DEF Running
  <2>5. CASE ExternDies
    BY <2>5 DEF ExternDies
  <2>6. CASE ExternFree
    BY <2>6 DEF ExternFree
  <2> QED BY <1>4, <2>1, <2>2, <2>3, <2>4, <2>5, <2>6 DEF ExternStep
<1>5. CASE UNCHANGED vars
  BY <1>5 DEF vars, fbvars, ctlvars
<1> QED BY <1>1, <1>2, <1>3, <1>4, <1>5 DEF Next

(* Unless unlink() itself fails, no temporary file stays behind a run of   *)
(* the program that goes on or ends by itself with exit code 0 or 1        *)
(* (src/filebuf.c:329, src/convert_extern.c:160).                          *)
THEOREM NoTempStays == Spec => []NoTempLeft
<1> DEFINE Linked == Running /\ ("unlink" \notin faults => LinkInv)
<1>1. Init => Linked
  BY Zenon DEF Init, LinkInv, Running
<1>2. StreamInv /\ Linked /\ [Next]_vars => Linked'
  <2> SUFFICES ASSUME StreamInv, Linked, [Next]_vars PROVE Linked'
    OBVIOUS
  <2>1. Running'
    BY StepRunning
  <2>2. ("unlink" \notin faults)' => "unlink" \notin faults
    BY SetupFixed DEF faults
  <2>3. "unlink" \notin faults => LinkInv'
    BY StepLink
  <2> QED BY <2>1, <2>2, <2>3
<1>3. Linked => NoTempLeft
  BY DEF Running, LinkInv, NoTempLeft, NamedPoints
<1> QED BY <1>1, <1>2, <1>3, InitStream, StepStream, PTL DEF Spec
-----------------------------------------------------------------------------
(* Lemmas on the sequences of bytes that the pipeline reads, converts and   *)
(* writes: what the operators of Filebuf and Convert make of them.          *)
Atoms == {"in", "out", "junk", "zero", "w2", "z", Std} \cup Kinds \cup Files \cup Nat
Byte == [1 .. 4 -> Atoms]
Text == Seq(Byte)
-----------------------------------------------------------------------------
(* Texts, pieces of them, and texts put together. *)
LEMMA TextLen ==
  ASSUME NEW s \in Text
  PROVE  /\ Len(s) \in Nat /\ DOMAIN s = 1 .. Len(s)
         /\ \A i \in 1 .. Len(s) : s[i] \in Byte
         /\ s = <<>> <=> Len(s) = 0
BY DEF Text

LEMMA TextConcat ==
  ASSUME NEW s \in Text, NEW t \in Text
  PROVE  /\ s \o t \in Text /\ Len(s \o t) = Len(s) + Len(t)
         /\ \A i \in 1 .. Len(s) : (s \o t)[i] = s[i]
         /\ \A i \in 1 .. Len(t) : (s \o t)[Len(s) + i] = t[i]
BY DEF Text

LEMMA TextPart ==
  ASSUME NEW s \in Text, NEW m \in Nat, m >= 1, NEW n \in Int, n <= Len(s)
  PROVE  /\ SubSeq(s, m, n) \in Text
         /\ Len(SubSeq(s, m, n)) = IF m <= n THEN n - m + 1 ELSE 0
         /\ \A i \in 1 .. n - m + 1 : SubSeq(s, m, n)[i] = s[m + i - 1]
BY DEF Text

LEMMA TextBehind ==
  ASSUME NEW s \in Text, NEW k \in Nat, NEW n \in Int, n <= Len(s)
  PROVE  /\ SubSeq(s, k + 1, n) \in Text
         /\ Len(SubSeq(s, k + 1, n)) = IF k < n THEN n - k ELSE 0
         /\ \A i \in 1 .. n - k : SubSeq(s, k + 1, n)[i] = s[k + i]
BY DEF Text

LEMMA TextEqual ==
  ASSUME NEW s \in Text, NEW t \in Text, Len(s) = Len(t),
         \A i \in 1 .. Len(s) : s[i] = t[i]
  PROVE  s = t
BY DEF Text

LEMMA TextEmpty ==
  ASSUME NEW s \in Text
  PROVE  <<>> \in Text /\ Len(<<>>) = 0 /\ s \o <<>> = s /\ <<>> \o s = s
BY DEF Text

LEMMA TextAssociative ==
  ASSUME NEW s \in Text, NEW t \in Text, NEW u \in Text
  PROVE  (s \o t) \o u = s \o (t \o u)
BY ConcatAssociative DEF Text

LEMMA TextSplit ==
  ASSUME NEW s \in Text, NEW m \in Nat, m >= 1, NEW k \in Nat, m <= k + 1,
         NEW n \in Nat, k <= n, n <= Len(s)
  PROVE  SubSeq(s, m, k) \o SubSeq(s, k + 1, n) = SubSeq(s, m, n)
BY DEF Text

LEMMA TextFull == ASSUME NEW s \in Text PROVE SubSeq(s, 1, Len(s)) = s
BY DEF Text
-----------------------------------------------------------------------------
LEMMA ShortSequences ==
  ASSUME NEW S, NEW a \in S, NEW b \in S
  PROVE  /\ <<>> \in Seq(S) /\ <<a>> \in Seq(S) /\ <<a, b>> \in Seq(S)
         /\ Len(<<>>) = 0 /\ Len(<<a>>) = 1 /\ Len(<<a, b>>) = 2
OBVIOUS

LEMMA ImageType == ASSUME NEW c \in Byte PROVE Image(c) \in Text
<1> DEFINE out == [c EXCEPT ![1] = IF @ = "in" THEN "out" ELSE "junk"]
<1>1. out \in Byte
  BY DEF Byte, Atoms
<1>2. [out EXCEPT ![2] = "w2"] \in Byte
  BY <1>1 DEF Byte, Atoms
<1>3. Image(c) \in {<<>>, <<out>>, <<out, [out EXCEPT ![2] = "w2"]>>}
  BY DEF Image
<1> HIDE DEF out
<1>4. /\ <<>> \in Text /\ <<out>> \in Text
      /\ <<out, [out EXCEPT ![2] = "w2"]>> \in Text
  BY <1>1, <1>2, ShortSequences, Zenon DEF Text
<1> QED BY <1>3, <1>4

LEMMA XlatType ==
  ASSUME NEW s \in Text
  PROVE  Xlat(s) \in Text /\ Len(Xlat(s)) = Len(s) /\ DOMAIN Xlat(s) = 1 .. Len(s)
<1> DEFINE E(i) == [s[i] EXCEPT ![1] = IF @ = "in" THEN "out" ELSE "junk"]
<1>1. DOMAIN s = 1 .. Len(s) /\ Len(s) \in Nat
  BY DEF Text
<1>2. \A i \in 1 .. Len(s) : s[i] \in Byte
  BY DEF Text
<1>3. \A i \in 1 .. Len(s) : E(i) \in Byte
  BY <1>2 DEF Byte, Atoms
<1>4. Xlat(s) = [i \in 1 .. Len(s) |-> E(i)]
  BY <1>1 DEF Xlat
<1> HIDE DEF E
<1> QED BY <1>1, <1>3, <1>4 DEF Text

-----------------------------------------------------------------------------
(* The recursive function in Images exists, and its value at n is the image *)
(* of the first n bytes.                                                    *)
Grows(s, g, n) ==
  g = [i \in 0 .. n |-> IF i = 0 THEN <<>> ELSE g[i - 1] \o Image(s[i])]
Growth(s) == CHOOSE g : Grows(s, g, Len(s))

LEMMA GrowthExists ==
  ASSUME NEW s \in Text
  PROVE  Grows(s, Growth(s), Len(s)) /\ Images(s) = Growth(s)[Len(s)]
<1> DEFINE T == {n \in Nat : \E g : Grows(s, g, n)}
<1>1. 0 \in T
  <2> DEFINE g == [i \in 0 .. 0 |-> <<>>]
  <2>1. Grows(s, g, 0)
    BY DEF Grows
  <2> QED BY <2>1
<1>2. ASSUME NEW n \in Nat, n \in T PROVE n + 1 \in T
  <2>1. PICK g : Grows(s, g, n)
    BY <1>2
  <2> DEFINE k == [i \in 0 .. n + 1 |-> IF i <= n THEN g[i]
                                        ELSE g[n] \o Image(s[n + 1])]
  <2>2. \A i \in 1 .. n : k[i] = g[i - 1] \o Image(s[i]) /\ k[i - 1] = g[i - 1]
    BY <2>1 DEF Grows
  <2>3. k[0] = <<>> /\ k[n + 1] = k[n] \o Image(s[n + 1])
    BY <2>1 DEF Grows
  <2>4. \A i \in 0 .. n + 1 :
          k[i] = IF i = 0 THEN <<>> ELSE k[i - 1] \o Image(s[i])
    BY <2>2, <2>3
  <2>5. Grows(s, k, n + 1)
    <3> HIDE DEF k
    <3>1. k = [i \in 0 .. n + 1 |-> k[i]]
      BY DEF k
    <3> QED BY <2>4, <3>1 DEF Grows
  <2> QED BY <2>5
<1>3. Len(s) \in T
  <2> HIDE DEF T
  <2> QED BY <1>1, <1>2, Induction DEF Text
<1>4. Grows(s, Growth(s), Len(s))
  BY <1>3 DEF Growth
<1>5. Images(s) = Growth(s)[Len(s)]
  BY DEF Images, Growth, Grows
<1> QED BY <1>4, <1>5

LEMMA GrowthStep ==
  ASSUME NEW s \in Text
  PROVE  /\ Growth(s)[0] = <<>>
         /\ \A n \in 1 .. Len(s) : Growth(s)[n] = Growth(s)[n - 1] \o Image(s[n])
<1> DEFINE g == Growth(s)
<1>1. Len(s) \in Nat /\ Grows(s, g, Len(s))
  BY GrowthExists DEF Text
<1> HIDE DEF g
<1>2. \A n \in 0 .. Len(s) :
        g[n] = IF n = 0 THEN <<>> ELSE g[n - 1] \o Image(s[n])
  BY <1>1, Zenon DEF Grows
<1>3. g[0] = <<>>
  BY <1>1, <1>2
<1>4. \A n \in 1 .. Len(s) : g[n] = g[n - 1] \o Image(s[n])
  <2> TAKE n \in 1 .. Len(s)
  <2>1. n \in 0 .. Len(s) /\ n # 0
    BY <1>1
  <2> QED BY <1>2, <2>1, Zenon
<1> QED BY <1>3, <1>4 DEF g

LEMMA GrowthType ==
  ASSUME NEW s \in Text
  PROVE  \A n \in 0 .. Len(s) : Growth(s)[n] \in Text
<1> DEFINE T == {n \in Nat : n <= Len(s) => Growth(s)[n] \in Text}
<1>1. 0 \in T
  BY GrowthStep, TextEmpty
<1>2. ASSUME NEW n \in Nat, n \in T PROVE n + 1 \in T
  <2> SUFFICES ASSUME n + 1 <= Len(s) PROVE Growth(s)[n + 1] \in Text
    OBVIOUS
  <2>0. n + 1 \in 1 .. Len(s) /\ (n + 1) - 1 = n
    BY TextLen
  <2>1. Growth(s)[n] \in Text
    BY <2>0, <1>2, TextLen
  <2>2. Growth(s)[n + 1] = Growth(s)[n] \o Image(s[n + 1])
    BY <2>0, GrowthStep
  <2>3. Image(s[n + 1]) \in Text
    BY <2>0, ImageType, TextLen
  <2> QED BY <2>1, <2>2, <2>3, TextConcat
<1>3. \A n \in Nat : n \in T
  <2> HIDE DEF T
  <2> QED BY <1>1, <1>2, Induction
<1> QED BY <1>3, TextLen

(* What Images yields is a text, and that of the first n bytes is the       *)
(* beginning of that of all.                                                *)
LEMMA ImagesType == ASSUME NEW s \in Text PROVE Images(s) \in Text
<1>1. Len(s) \in 0 .. Len(s)
  BY TextLen
<1> QED BY <1>1, GrowthExists, GrowthType

LEMMA ImagesEmpty == Images(<<>>) = <<>>
<1>1. <<>> \in Text /\ Len(<<>>) = 0
  BY DEF Text
<1> QED BY <1>1, GrowthExists, GrowthStep

LEMMA ImagesUpTo ==
  ASSUME NEW s \in Text, NEW k \in 0 .. Len(s)
  PROVE  Growth(s)[k] = Images(SubSeq(s, 1, k))
<1> DEFINE p == SubSeq(s, 1, k)
           T == {n \in Nat : n <= k => Growth(p)[n] = Growth(s)[n]}
<1>0. /\ Len(s) \in Nat /\ p \in Text /\ Len(p) = k
      /\ \A i \in 1 .. k : p[i] = s[i]
  BY TextLen, TextPart
<1> HIDE DEF p
<1>1. 0 \in T
  BY <1>0, GrowthStep
<1>2. ASSUME NEW n \in Nat, n \in T PROVE n + 1 \in T
  <2> SUFFICES ASSUME n + 1 <= k PROVE Growth(p)[n + 1] = Growth(s)[n + 1]
    OBVIOUS
  <2>1. Growth(p)[n] = Growth(s)[n] /\ p[n + 1] = s[n + 1] /\ (n + 1) - 1 = n
    BY <1>0, <1>2
  <2>2. n + 1 \in 1 .. Len(p) /\ n + 1 \in 1 .. Len(s)
    BY <1>0
  <2> QED BY <1>0, <2>1, <2>2, GrowthStep
<1>3. k \in T
  <2> HIDE DEF T
  <2> QED BY <1>0, <1>1, <1>2, Induction
<1>4. Growth(p)[k] = Growth(s)[k]
  BY <1>3
<1> QED BY <1>0, <1>4, GrowthExists DEF p

LEMMA ImagesLast ==
  ASSUME NEW s \in Text, s # <<>>
  PROVE  Images(s) = Images(SubSeq(s, 1, Len(s) - 1)) \o Image(s[Len(s)])
<1>1. Len(s) \in 1 .. Len(s) /\ Len(s) - 1 \in 0 .. Len(s)
  BY TextLen
<1>2. Growth(s)[Len(s) - 1] = Images(SubSeq(s, 1, Len(s) - 1))
  BY <1>1, ImagesUpTo
<1> QED BY <1>1, <1>2, GrowthExists, GrowthStep

(* The image of two texts put together is their images put together.        *)
LEMMA ImagesConcat ==
  ASSUME NEW s \in Text, NEW t \in Text
  PROVE  Images(s \o t) = Images(s) \o Images(t)
<1> DEFINE Cut(n) == SubSeq(t, 1, n)
           T == {n \in Nat : n <= Len(t) =>
                   Images(s \o Cut(n)) = Images(s) \o Images(Cut(n))}
<1>0. Len(s) \in Nat /\ Len(t) \in Nat
  BY TextLen
<1>1. \A n \in 0 .. Len(t) :
        /\ Cut(n) \in Text /\ Len(Cut(n)) = n
        /\ \A i \in 1 .. n : Cut(n)[i] = t[i]
  BY <1>0, TextPart
<1>5. Cut(Len(t)) = t
  BY TextFull
<1> HIDE DEF Cut
<1>2. 0 \in T
  <2>1. Cut(0) = <<>>
    BY <1>0, <1>1, TextLen
  <2>2. s \o <<>> = s /\ Images(s) \o <<>> = Images(s)
    BY ImagesType, TextEmpty
  <2> QED BY <2>1, <2>2, ImagesEmpty
<1>3. ASSUME NEW n \in Nat, n \in T PROVE n + 1 \in T
  <2> SUFFICES ASSUME n + 1 <= Len(t)
               PROVE  Images(s \o Cut(n + 1)) = Images(s) \o Images(Cut(n + 1))
    OBVIOUS
  <2> DEFINE v == Cut(n)
             w == Cut(n + 1)
             u == s \o w
             c == t[n + 1]
  <2>1. /\ v \in Text /\ w \in Text /\ Len(w) = n + 1 /\ Len(v) = n
        /\ w[n + 1] = c /\ c \in Byte /\ w # <<>>
        /\ \A i \in 1 .. n : v[i] = t[i] /\ w[i] = t[i]
    BY <1>0, <1>1, TextLen
  <2>t. Images(s \o v) = Images(s) \o Images(v)
    BY <1>0, <1>3
  <2> HIDE DEF v, w, c
  <2>2. /\ u \in Text /\ Len(u) = Len(s) + (n + 1)
        /\ \A i \in 1 .. Len(s) : u[i] = s[i]
        /\ \A i \in 1 .. n + 1 : u[Len(s) + i] = w[i]
    <3>1. /\ u \in Text /\ Len(u) = Len(s) + Len(w)
          /\ \A i \in 1 .. Len(s) : u[i] = s[i]
          /\ \A i \in 1 .. Len(w) : u[Len(s) + i] = w[i]
      BY <2>1, TextConcat
    <3> QED BY <2>1, <3>1
  <2> HIDE DEF u
  <2>8. u # <<>> /\ u[Len(u)] = c /\ Len(u) - 1 = Len(s) + n
    <3>1. n + 1 \in 1 .. n + 1
      OBVIOUS
    <3> QED BY <1>0, <2>1, <2>2, <3>1, TextLen
  <2>3. SubSeq(w, 1, n) = v
    <3>1. /\ SubSeq(w, 1, n) \in Text /\ Len(SubSeq(w, 1, n)) = n
          /\ \A i \in 1 .. n : SubSeq(w, 1, n)[i] = w[i]
      BY <2>1, TextPart
    <3> QED BY <2>1, <3>1, TextEqual
  <2>4. SubSeq(u, 1, Len(u) - 1) = s \o v
    <3> DEFINE x == s \o v
               y == SubSeq(u, 1, Len(s) + n)
    <3>1. /\ x \in Text /\ Len(x) = Len(s) + n
          /\ \A i \in 1 .. Len(s) : x[i] = s[i]
          /\ \A i \in 1 .. n : x[Len(s) + i] = v[i]
      BY <2>1, TextConcat
    <3>2. /\ y \in Text /\ Len(y) = Len(s) + n
          /\ \A i \in 1 .. Len(s) + n : y[i] = u[i]
      BY <1>0, <2>2, TextPart
    <3> HIDE DEF x, y
    <3>3. \A i \in 1 .. Len(s) + n : u[i] = x[i]
      <4> TAKE i \in 1 .. Len(s) + n
      <4>1. CASE i <= Len(s)
        BY <1>0, <2>2, <3>1, <4>1
      <4>2. CASE i > Len(s)
        <5>1. PICK j \in 1 .. n : i = Len(s) + j
          <6>1. i - Len(s) \in 1 .. n /\ i = Len(s) + (i - Len(s))
            BY <1>0, <4>2
          <6> QED BY <6>1
        <5>2. j \in 1 .. n + 1
          OBVIOUS
        <5> QED BY <2>1, <2>2, <3>1, <5>1, <5>2
      <4> QED BY <1>0, <4>1, <4>2
    <3>5. x = y
      BY <3>1, <3>2, <3>3, TextEqual
    <3> QED BY <2>8, <3>5 DEF x, y
  <2>6. Images(u) = (Images(s) \o Images(v)) \o Image(c)
    BY <2>2, <2>4, <2>8, <2>t, ImagesLast
  <2>7. Images(w) = Images(v) \o Image(c)
    <3>1. (n + 1) - 1 = n
      OBVIOUS
    <3> QED BY <2>1, <2>3, <3>1, ImagesLast
  <2>9. Images(s) \in Text /\ Images(v) \in Text /\ Image(c) \in Text
    BY <2>1, ImagesType, ImageType
  <2>10. Images(u) = Images(s) \o Images(w)
    BY <2>6, <2>7, <2>9, TextAssociative, SMTT(30)
  <2> QED BY <2>10 DEF u, w
<1>4. Len(t) \in T
  <2> HIDE DEF T
  <2> QED BY <1>0, <1>2, <1>3, Induction
<1> QED BY <1>0, <1>4, <1>5
-----------------------------------------------------------------------------
(* The operators of module Filebuf on texts. *)
Handles == Files \cup {Std, Temp}
Stream == [data : Text, pos : Nat]
Buffer == [data : Text, pos : Int]

(* fwrite() replaces what was at the position and adds the rest.            *)
LEMMA OverwrittenFacts ==
  ASSUME NEW o \in Stream, NEW s \in Text, o.pos <= Len(o.data)
  PROVE  LET r == Overwritten(o, s)
         IN /\ r \in Stream /\ r.pos = o.pos + Len(s)
            /\ Len(r.data) = IF r.pos >= Len(o.data) THEN r.pos ELSE Len(o.data)
            /\ \A i \in 1 .. o.pos : r.data[i] = o.data[i]
            /\ \A i \in 1 .. Len(s) : r.data[o.pos + i] = s[i]
            /\ \A i \in r.pos + 1 .. Len(o.data) : r.data[i] = o.data[i]
            /\ o.pos = Len(o.data) => r.data = o.data \o s
<1> DEFINE n == Len(o.data)
           m == Len(s)
           a == SubSeq(o.data, 1, o.pos)
           z == SubSeq(o.data, o.pos + m + 1, n)
<1>1. o.data \in Text /\ o.pos \in Nat /\ n \in Nat /\ m \in Nat
  BY TextLen DEF Stream
<1>2. /\ a \in Text /\ Len(a) = o.pos
      /\ \A i \in 1 .. o.pos : a[i] = o.data[i]
  BY <1>1, TextPart
<1>3. /\ z \in Text
      /\ Len(z) = IF o.pos + m < n THEN n - (o.pos + m) ELSE 0
      /\ \A i \in 1 .. n - (o.pos + m) : z[i] = o.data[o.pos + m + i]
  <2>1. o.pos + m \in Nat /\ n \in Int /\ n <= Len(o.data)
    BY <1>1
  <2> QED BY <1>1, <2>1, TextBehind
<1> DEFINE as == a \o s
           d == as \o z
<1>r. Overwritten(o, s) = [data |-> d, pos |-> o.pos + m]
  BY DEF Overwritten
<1>t. o.pos = n => a = o.data /\ z = <<>>
  BY <1>1, <1>3, TextFull, TextLen
<1> HIDE DEF a, z
<1>4. /\ as \in Text /\ Len(as) = o.pos + m
      /\ \A i \in 1 .. o.pos : as[i] = a[i]
      /\ \A i \in 1 .. m : as[o.pos + i] = s[i]
  <2>1. /\ as \in Text /\ Len(as) = Len(a) + Len(s)
        /\ \A i \in 1 .. Len(a) : as[i] = a[i]
        /\ \A i \in 1 .. Len(s) : as[Len(a) + i] = s[i]
    BY <1>2, TextConcat
  <2> QED BY <1>2, <2>1
<1>w. as \o z = d
  OBVIOUS
<1> HIDE DEF as
<1>5. /\ d \in Text /\ Len(d) = o.pos + m + Len(z)
      /\ \A i \in 1 .. o.pos + m : d[i] = as[i]
      /\ \A i \in 1 .. Len(z) : d[o.pos + m + i] = z[i]
  <2> HIDE DEF d
  <2>1. /\ d \in Text /\ Len(d) = Len(as) + Len(z)
        /\ \A i \in 1 .. Len(as) : d[i] = as[i]
        /\ \A i \in 1 .. Len(z) : d[Len(as) + i] = z[i]
    BY <1>3, <1>4, <1>w, TextConcat
  <2> QED BY <1>4, <2>1
<1>d. o.pos = n => d = o.data \o s
  BY <1>t, <1>4, TextEmpty DEF as
<1> HIDE DEF d
<1>6. ASSUME NEW i \in 1 .. o.pos PROVE d[i] = o.data[i]
  <2>1. i \in 1 .. o.pos + m
    BY <1>1
  <2> QED BY <2>1, <1>2, <1>4, <1>5
<1>7. ASSUME NEW i \in 1 .. m PROVE d[o.pos + i] = s[i]
  <2>1. o.pos + i \in 1 .. o.pos + m
    BY <1>1
  <2> QED BY <2>1, <1>4, <1>5
<1>8. ASSUME NEW i \in o.pos + m + 1 .. n PROVE d[i] = o.data[i]
  <2>1. PICK j \in 1 .. n - (o.pos + m) : i = o.pos + m + j
    <3>1. i - (o.pos + m) \in 1 .. n - (o.pos + m) /\ i = o.pos + m + (i - (o.pos + m))
      BY <1>1
    <3> QED BY <3>1
  <2> QED BY <1>1, <1>3, <1>5, <2>1
<1>9. [data |-> d, pos |-> o.pos + m] \in Stream
  BY <1>1, <1>5 DEF Stream
<1>10. Len(d) = IF o.pos + m >= n THEN o.pos + m ELSE n
  BY <1>1, <1>3, <1>5
<1> DEFINE r == [data |-> d, pos |-> o.pos + m]
<1>11. /\ r \in Stream /\ r.pos = o.pos + m /\ r.data = d
  BY <1>9
<1> HIDE DEF r, d
<1>12. /\ r.pos = o.pos + Len(s)
       /\ Len(r.data) = IF r.pos >= Len(o.data) THEN r.pos ELSE Len(o.data)
       /\ \A i \in 1 .. o.pos : r.data[i] = o.data[i]
       /\ \A i \in 1 .. Len(s) : r.data[o.pos + i] = s[i]
       /\ \A i \in r.pos + 1 .. Len(o.data) : r.data[i] = o.data[i]
       /\ o.pos = Len(o.data) => r.data = o.data \o s
  <2> USE <1>11
  <2>1. Len(r.data) = IF r.pos >= Len(o.data) THEN r.pos ELSE Len(o.data)
    BY <1>10
  <2>2. \A i \in 1 .. o.pos : r.data[i] = o.data[i]
    BY <1>6
  <2>3. \A i \in 1 .. Len(s) : r.data[o.pos + i] = s[i]
    BY <1>7
  <2>4. \A i \in r.pos + 1 .. Len(o.data) : r.data[i] = o.data[i]
    BY <1>8
  <2>5. o.pos = Len(o.data) => r.data = o.data \o s
    BY <1>d
  <2> QED BY <2>1, <2>2, <2>3, <2>4, <2>5
<1>13. Overwritten(o, s) = r
  BY <1>r DEF r
<1> QED BY <1>11, <1>12, <1>13

(* ftruncate() keeps what was there of the first n bytes.                   *)
LEMMA ResizedFacts ==
  ASSUME NEW s \in Text, NEW f \in Files, NEW n \in Nat
  PROVE  Resized(s, f, n) \in Text /\ Len(Resized(s, f, n)) = n
<1> DEFINE E(i) == IF i <= Len(s) THEN s[i] ELSE <<"zero", "z", f, i>>
<1>1. \A i \in 1 .. n : E(i) \in Byte
  <2> TAKE i \in 1 .. n
  <2>1. CASE i <= Len(s)
    BY <2>1, TextLen
  <2>2. CASE ~(i <= Len(s))
    BY <2>2 DEF Byte, Atoms
  <2> QED BY <2>1, <2>2
<1>2. Resized(s, f, n) = [i \in 1 .. n |-> E(i)]
  BY DEF Resized
<1> HIDE DEF E
<1> QED BY <1>1, <1>2 DEF Text
-----------------------------------------------------------------------------
(* The buffers and stream positions. *)
(***************************************************************************)
(* The inductive invariant behind BuffersInBounds: what the streams and     *)
(* buffers are, and where a position lies within its file.  Only the        *)
(* external converter, which replaces a file behind the back of its stream, *)
(* may leave a position past the end; whoever writes to the file after that *)
(* goes back to its start first.                                            *)
(***************************************************************************)
Tight(o) == obj[o].pos <= Len(obj[o].data)
MainSize == mem["main"].pos
Seeked == {"bi_read", "bi_back", "bi_write", "bi_sync", "ic_read", "ic_conv",
           "ic_full", "ic_write"}
Rewound == {"ic_rewind", "ic_trunc", "rc_trunc", "rd_rewind", "rd_trunc"}
NamedOnly == {"bi_seek", "bi_read", "bi_back", "bi_write", "bi_sync", "rc_from",
              "rc_to", "rc_trunc", "rc_done", "rd_temp", "rd_seek", "rd_task",
              "rd_file", "rd_rewind", "rd_trunc", "rd_free"}

ObjectsOK == obj \in [Objects -> Stream] /\ Tight("stdout") /\ Tight(Temp)

BuffersOK ==
  /\ mem \in [Buffers -> Buffer]
  /\ \A b \in Buffers :
       /\ mem[b].pos \in -1 .. Size(b)
       /\ Len(mem[b].data) = IF mem[b].pos = -1 THEN 0 ELSE mem[b].pos

StoreOK == ObjectsOK /\ BuffersOK

PlacesOK ==
  /\ orig \in [Files \cup {Std} -> Text]
  /\ fsize \in Nat /\ used \in Nat
  /\ pc \in {"copy_write", "copy_read"} => call.to # Temp \/ call.from # Temp
  /\ pc \in NamedOnly => h # Std
  /\ pc \in {"copy_write", "copy_read"} /\ call.ret \in NamedOnly => h # Std
  /\ pc \in {"copy_write", "copy_read"} /\ call.to # Std => Tight(call.to)
  /\ pc \in Seeked /\ h # Std => Tight(h)
  /\ pc \in Rewound /\ h # Std => obj[h].pos = 0
  /\ MainSize = -1 => err = "IOFAIL" \/ pc \in BetweenFiles
  /\ pc \in {"bi_seek", "bi_read", "bi_sync"} => MainSize = 0
  /\ pc = "bi_back" => MainSize <= obj[h].pos
  /\ pc \in {"ic_conv", "ic_full"} => used <= mem["iconv"].pos

BufferInv == StoreOK /\ PlacesOK
-----------------------------------------------------------------------------
(* What the i/o layer makes of the streams and buffers. *)
OthersKept(o) == \A p \in Objects \ {o} : obj'[p] = obj[p]
BuffersKept(b) == \A c \in Buffers \ {b} : mem'[c] = mem[c]

LEMMA Places ==
  ASSUME NEW x \in Handles
  PROVE  Source(x) \in Objects /\ Sink(x) \in Objects
BY DEF Handles, Source, Sink, Objects

LEMMA StoreTypes ==
  ASSUME StoreOK
  PROVE  /\ \A o \in Objects : obj[o] \in Stream /\ obj[o].data \in Text
                               /\ obj[o].pos \in Nat /\ Len(obj[o].data) \in Nat
         /\ \A b \in Buffers : mem[b] \in Buffer /\ mem[b].data \in Text
                               /\ mem[b].pos \in Int /\ Len(mem[b].data) \in Nat
<1>1. \A o \in Objects : obj[o] \in Stream /\ obj[o].data \in Text
                         /\ obj[o].pos \in Nat
  BY DEF StoreOK, ObjectsOK, BuffersOK, Stream
<1>2. \A b \in Buffers : mem[b] \in Buffer /\ mem[b].data \in Text
                         /\ mem[b].pos \in Int
  BY DEF StoreOK, ObjectsOK, BuffersOK, Buffer
<1> QED BY <1>1, <1>2, TextLen

LEMMA SizeType == \A b \in Buffers : Size(b) \in Nat /\ Size(b) >= 2
BY FilebufAssumption DEF Size

(* fread() delivers no more than there is, and no more than there is room   *)
(* for; less than that only at the end of the file.                         *)
LEMMA FetchedFacts ==
  ASSUME StoreOK, NEW x \in Handles, NEW b \in Buffers
  PROVE  LET s == Fetched(x, b)
             o == obj[Source(x)]
         IN /\ s \in Text /\ Len(s) \in Nat
            /\ Len(s) <= Size(b) - mem[b].pos
            /\ \A i \in 1 .. Len(s) : s[i] = o.data[o.pos + i]
            /\ o.pos <= Len(o.data) => o.pos + Len(s) <= Len(o.data)
            /\ Len(s) < Size(b) - mem[b].pos => o.pos + Len(s) >= Len(o.data)
<1> DEFINE o == obj[Source(x)]
           room == Size(b) - mem[b].pos
           e == Smaller(Len(o.data), o.pos + room)
           s == SubSeq(o.data, o.pos + 1, e)
<1>1. o.data \in Text /\ o.pos \in Nat /\ Len(o.data) \in Nat
  BY Places, StoreTypes
<1>2. room \in Nat
  BY StoreTypes, SizeType DEF StoreOK, ObjectsOK, BuffersOK
<1>3. Fetched(x, b) = s
  <2>1. o.pos + Size(b) - mem[b].pos = o.pos + room
    BY <1>1, SizeType, StoreTypes
  <2> QED BY <2>1 DEF Fetched
<1> HIDE DEF room, o
<1>4. e \in Int /\ e <= Len(o.data) /\ e <= o.pos + room
      /\ (e = Len(o.data) \/ e = o.pos + room)
  BY <1>1, <1>2 DEF Smaller
<1> HIDE DEF e
<1>5. /\ s \in Text /\ Len(s) = IF o.pos < e THEN e - o.pos ELSE 0
      /\ \A i \in 1 .. e - o.pos : s[i] = o.data[o.pos + i]
  BY <1>1, <1>4, TextBehind
<1> HIDE DEF s
<1>6. \A i \in 1 .. Len(s) : s[i] = o.data[o.pos + i]
  BY <1>1, <1>4, <1>5
<1>7. /\ Len(s) <= room
      /\ o.pos <= Len(o.data) => o.pos + Len(s) <= Len(o.data)
      /\ Len(s) < room => o.pos + Len(s) >= Len(o.data)
  BY <1>1, <1>2, <1>4, <1>5
<1> QED BY <1>3, <1>5, <1>6, <1>7, TextLen DEF room, o

LEMMA FilledFacts ==
  ASSUME StoreOK, NEW x \in Handles, NEW b \in Buffers
  PROVE  LET new == Fetched(x, b)
             r == Filled(x, b)
         IN /\ r \in Buffer /\ r.pos = mem[b].pos + Len(new)
            /\ r.pos \in -1 .. Size(b)
            /\ Len(r.data) = IF r.pos = -1 THEN 0 ELSE r.pos
            /\ mem[b].pos # -1 => r.data = mem[b].data \o new
<1> DEFINE new == Fetched(x, b)
           old == mem[b]
           d == IF old.pos = -1 /\ new # <<>> THEN Tail(new) ELSE old.data \o new
<1>1. Filled(x, b) = [data |-> d, pos |-> old.pos + Len(new)]
  BY DEF Filled
<1>2. /\ new \in Text /\ Len(new) \in Nat /\ Len(new) <= Size(b) - old.pos
      /\ old.data \in Text /\ old.pos \in -1 .. Size(b) /\ Size(b) \in Nat
      /\ Len(old.data) = IF old.pos = -1 THEN 0 ELSE old.pos
  BY FetchedFacts, StoreTypes, SizeType DEF StoreOK, ObjectsOK, BuffersOK
<1> HIDE DEF new, old
<1>3. d \in Text /\ Len(d) = IF old.pos + Len(new) = -1 THEN 0
                             ELSE old.pos + Len(new)
  <2>1. CASE old.pos = -1 /\ new # <<>>
    <3>1. Tail(new) \in Text /\ Len(Tail(new)) = Len(new) - 1
      BY <1>2, <2>1, HeadTailProperties DEF Text
    <3>2. Len(new) # 0
      BY <1>2, <2>1, TextLen
    <3> QED BY <1>2, <2>1, <3>1, <3>2
  <2>2. CASE ~(old.pos = -1 /\ new # <<>>)
    <3>1. old.data \o new \in Text /\ Len(old.data \o new) = Len(old.data) + Len(new)
      BY <1>2, TextConcat
    <3>2. old.pos = -1 => Len(new) = 0
      BY <1>2, <2>2, TextLen
    <3> QED BY <1>2, <2>2, <3>1, <3>2
  <2> QED BY <2>1, <2>2
<1>4. old.pos # -1 => d = old.data \o new
  OBVIOUS
<1> HIDE DEF d
<1>5. [data |-> d, pos |-> old.pos + Len(new)] \in Buffer
  BY <1>2, <1>3 DEF Buffer
<1> QED BY <1>1, <1>2, <1>3, <1>4, <1>5 DEF new, old

LEMMA ReadStore ==
  ASSUME StoreOK, NEW x \in Handles, NEW b \in Buffers, FileRead(x, b)
  PROVE  /\ StoreOK' /\ OthersKept(Source(x)) /\ BuffersKept(b)
         /\ obj'[Source(x)].data = obj[Source(x)].data
         /\ obj'[Source(x)].pos = obj[Source(x)].pos + Len(Fetched(x, b))
         /\ mem'[b] = Filled(x, b)
         /\ mem'[b].pos = mem[b].pos + Len(Fetched(x, b))
         /\ Tight(Source(x)) => Tight(Source(x))'
<1> DEFINE o == Source(x)
           n == Len(Fetched(x, b))
<1>1. o \in Objects /\ n \in Nat /\ obj[o].pos \in Nat /\ obj[o].data \in Text
      /\ Len(obj[o].data) \in Nat
  BY Places, FetchedFacts, StoreTypes
<1>2. Tight(o) => obj[o].pos + n <= Len(obj[o].data)
  BY FetchedFacts DEF Tight
<1>3. /\ obj' = [obj EXCEPT ![o].pos = @ + n]
      /\ mem' = [mem EXCEPT ![b] = Filled(x, b)]
  BY DEF FileRead
<1>4. /\ Filled(x, b) \in Buffer /\ Filled(x, b).pos = mem[b].pos + n
      /\ Filled(x, b).pos \in -1 .. Size(b)
      /\ Len(Filled(x, b).data) = IF Filled(x, b).pos = -1 THEN 0
                                  ELSE Filled(x, b).pos
  BY FilledFacts
<1> HIDE DEF o, n
<1>5. obj' \in [Objects -> Stream] /\ OthersKept(o)
      /\ obj'[o].data = obj[o].data /\ obj'[o].pos = obj[o].pos + n
  BY <1>1, <1>3 DEF StoreOK, ObjectsOK, BuffersOK, OthersKept, Stream
<1>6. mem' \in [Buffers -> Buffer] /\ BuffersKept(b) /\ mem'[b] = Filled(x, b)
  BY <1>3, <1>4 DEF StoreOK, ObjectsOK, BuffersOK, BuffersKept
<1>7. Tight(o) => Tight(o)'
  BY <1>2, <1>5 DEF Tight
<1>8. \A p \in {"stdout", Temp} : Tight(p)'
  BY <1>5, <1>7 DEF StoreOK, ObjectsOK, BuffersOK, Tight, OthersKept, Objects
<1> QED BY <1>4, <1>5, <1>6, <1>7, <1>8 DEF StoreOK, ObjectsOK, BuffersOK, BuffersKept, o, n

(* Bytes written to an object whose position lies within it. *)
LEMMA PutStore ==
  ASSUME StoreOK, NEW o \in Objects, NEW s \in Text, Tight(o),
         obj' = [obj EXCEPT ![o] = Overwritten(@, s)]
  PROVE  /\ ObjectsOK' /\ OthersKept(o)
         /\ obj'[o] = Overwritten(obj[o], s) /\ Tight(o)'
<1> DEFINE r == Overwritten(obj[o], s)
<1>1. obj[o] \in Stream /\ obj[o].pos <= Len(obj[o].data)
      /\ Len(obj[o].data) \in Nat /\ obj[o].pos \in Nat /\ Len(s) \in Nat
  BY StoreTypes, TextLen DEF Tight
<1>2. /\ r \in Stream /\ r.pos = obj[o].pos + Len(s)
      /\ Len(r.data) = IF r.pos >= Len(obj[o].data) THEN r.pos
                       ELSE Len(obj[o].data)
  BY <1>1, OverwrittenFacts
<1> HIDE DEF r
<1>3. obj' = [obj EXCEPT ![o] = r]
  BY DEF r
<1>4. obj' \in [Objects -> Stream] /\ OthersKept(o) /\ obj'[o] = r
  BY <1>2, <1>3 DEF StoreOK, ObjectsOK, BuffersOK, OthersKept
<1>5. Tight(o)'
  BY <1>1, <1>2, <1>4 DEF Tight
<1>6. \A p \in {"stdout", Temp} : Tight(p)'
  BY <1>4, <1>5 DEF StoreOK, ObjectsOK, BuffersOK, Tight, OthersKept, Objects
<1> QED BY <1>4, <1>5, <1>6 DEF r, ObjectsOK

LEMMA WriteStore ==
  ASSUME StoreOK, NEW x \in Handles, NEW b \in Buffers, NEW s \in Text,
         Tight(Sink(x)), FileWrite(x, b, s)
  PROVE  /\ StoreOK' /\ OthersKept(Sink(x)) /\ BuffersKept(b)
         /\ obj'[Sink(x)] = Overwritten(obj[Sink(x)], s) /\ Tight(Sink(x))'
         /\ mem'[b] = EmptyBuffer
<1>1. /\ ObjectsOK' /\ OthersKept(Sink(x))
      /\ obj'[Sink(x)] = Overwritten(obj[Sink(x)], s) /\ Tight(Sink(x))'
  BY Places, PutStore DEF FileWrite
<1>2. /\ mem' \in [Buffers -> Buffer] /\ BuffersKept(b) /\ mem'[b] = EmptyBuffer
      /\ EmptyBuffer.pos = 0 /\ Len(EmptyBuffer.data) = 0
  BY TextEmpty, ShortSequences DEF FileWrite, StoreOK, ObjectsOK, BuffersOK, BuffersKept, EmptyBuffer, Buffer, Text
<1> QED BY <1>1, <1>2, SizeType DEF StoreOK, ObjectsOK, BuffersOK, BuffersKept

LEMMA WriteFailsStore ==
  ASSUME StoreOK, NEW x \in Handles, NEW b \in Buffers, NEW s \in Text,
         Tight(Sink(x)), FileWriteFails(x, b, s)
  PROVE  StoreOK' /\ OthersKept(Sink(x)) /\ mem' = mem /\ Tight(Sink(x))'
<1>1. PICK k \in 0 .. Len(s) - 1 :
        obj' = [obj EXCEPT ![Sink(x)] = Overwritten(@, SubSeq(s, 1, k))]
  BY DEF FileWriteFails
<1>2. SubSeq(s, 1, k) \in Text
  BY TextPart, TextLen
<1>3. ObjectsOK' /\ OthersKept(Sink(x)) /\ Tight(Sink(x))'
  BY <1>1, <1>2, Places, PutStore
<1>4. mem' = mem
  BY DEF FileWriteFails
<1> QED BY <1>3, <1>4 DEF StoreOK, ObjectsOK, BuffersOK

LEMMA SeekStore ==
  ASSUME StoreOK, NEW x \in Objects, NEW p \in Nat,
         x \in {"stdout", Temp} => p <= Len(obj[x].data),
         obj' = [obj EXCEPT ![x].pos = p]
  PROVE  /\ ObjectsOK' /\ OthersKept(x)
         /\ obj'[x].pos = p /\ obj'[x].data = obj[x].data
         /\ p <= Len(obj[x].data) => Tight(x)'
<1>1. /\ obj' \in [Objects -> Stream] /\ OthersKept(x)
      /\ obj'[x].pos = p /\ obj'[x].data = obj[x].data
  BY DEF StoreOK, ObjectsOK, OthersKept, Stream
<1>2. p <= Len(obj[x].data) => Tight(x)'
  BY <1>1 DEF Tight
<1>3. \A q \in {"stdout", Temp} : Tight(q)'
  BY <1>1, <1>2 DEF StoreOK, ObjectsOK, Tight, OthersKept, Objects
<1> QED BY <1>1, <1>2, <1>3 DEF ObjectsOK

LEMMA TruncateStore ==
  ASSUME StoreOK, NEW x \in Files, NEW n \in Nat,
         obj' = [obj EXCEPT ![x].data = Resized(@, x, n)]
  PROVE  /\ ObjectsOK' /\ OthersKept(x)
         /\ obj'[x].data = Resized(obj[x].data, x, n)
         /\ obj'[x].pos = obj[x].pos /\ Len(obj'[x].data) = n
<1>1. x \in Objects /\ x \notin {"stdout", Temp}
  BY FilebufAssumption DEF Objects
<1>2. /\ Resized(obj[x].data, x, n) \in Text
      /\ Len(Resized(obj[x].data, x, n)) = n
  BY <1>1, ResizedFacts, StoreTypes
<1>3. /\ obj' \in [Objects -> Stream] /\ OthersKept(x)
      /\ obj'[x] = [data |-> Resized(obj[x].data, x, n), pos |-> obj[x].pos]
  BY <1>1, <1>2 DEF StoreOK, ObjectsOK, BuffersOK, OthersKept, Stream
<1>4. \A q \in {"stdout", Temp} : Tight(q)'
  BY <1>1, <1>3 DEF StoreOK, ObjectsOK, BuffersOK, Tight, OthersKept, Objects
<1> QED BY <1>2, <1>3, <1>4 DEF ObjectsOK

LEMMA SameObjects == ASSUME StoreOK, obj' = obj PROVE ObjectsOK'
BY DEF StoreOK, ObjectsOK, Tight

LEMMA SameBuffers == ASSUME StoreOK, mem' = mem PROVE BuffersOK'
BY DEF StoreOK, BuffersOK

LEMMA SetBuffer ==
  ASSUME StoreOK, NEW b \in Buffers, NEW v \in Buffer,
         v.pos \in -1 .. Size(b), Len(v.data) = IF v.pos = -1 THEN 0 ELSE v.pos,
         mem' = [mem EXCEPT ![b] = v]
  PROVE  BuffersOK' /\ BuffersKept(b) /\ mem'[b] = v
<1>1. mem' \in [Buffers -> Buffer] /\ BuffersKept(b) /\ mem'[b] = v
  BY DEF StoreOK, BuffersOK, BuffersKept
<1> QED BY <1>1 DEF StoreOK, BuffersOK, BuffersKept

LEMMA SetObject ==
  ASSUME StoreOK, NEW o \in Objects, NEW v \in Stream,
         o \in {"stdout", Temp} => v.pos <= Len(v.data),
         obj' = [obj EXCEPT ![o] = v]
  PROVE  ObjectsOK' /\ OthersKept(o) /\ obj'[o] = v
<1>1. obj' \in [Objects -> Stream] /\ OthersKept(o) /\ obj'[o] = v
  BY DEF StoreOK, ObjectsOK, OthersKept
<1>2. \A q \in {"stdout", Temp} : Tight(q)'
  BY <1>1 DEF StoreOK, ObjectsOK, Tight, OthersKept, Objects
<1> QED BY <1>1, <1>2 DEF ObjectsOK

LEMMA SpecialBuffers ==
  /\ EmptyBuffer \in Buffer /\ EmptyBuffer \in Stream
  /\ EmptyBuffer.pos = 0 /\ EmptyBuffer.data = <<>> /\ Len(EmptyBuffer.data) = 0
  /\ FailedBuffer \in Buffer /\ FailedBuffer.pos = -1
  /\ FailedBuffer.data = <<>> /\ Len(FailedBuffer.data) = 0
  /\ \A b \in Buffers : 0 \in -1 .. Size(b) /\ -1 \in -1 .. Size(b)
BY SizeType DEF EmptyBuffer, FailedBuffer, Buffer, Stream, Text

LEMMA ReadFailsStore ==
  ASSUME StoreOK, NEW x, NEW b \in Buffers, FileReadFails(x, b)
  PROVE  StoreOK' /\ obj' = obj /\ BuffersKept(b) /\ mem'[b] = FailedBuffer
<1>1. obj' = obj /\ mem' = [mem EXCEPT ![b] = FailedBuffer]
  BY DEF FileReadFails
<1> QED BY <1>1, SetBuffer, SameObjects, SpecialBuffers DEF StoreOK

(* The file that is being processed. *)
LEMMA CurrentHandle ==
  ASSUME StreamInv, pc \notin {"main", "stopped"}
  PROVE  /\ h \in Files \cup {Std} /\ h \in Handles
         /\ cur \in 1 .. Len(setup.args)
<1>1. setup.args \in Seq(Files \cup {Std}) /\ cur \in 1 .. Len(setup.args)
  BY ConvertAssumption DEF StreamInv, TypeOK, Setups
<1> QED BY <1>1 DEF h, Handles

LEMMA MainHandle ==
  ASSUME StreamInv, pc = "main", cur <= Len(setup.args)
  PROVE  /\ h \in Files \cup {Std} /\ h \in Handles
<1>1. setup.args \in Seq(Files \cup {Std}) /\ cur \in 1 .. Len(setup.args) + 1
  BY ConvertAssumption DEF StreamInv, TypeOK, Setups
<1> QED BY <1>1 DEF h, Handles
-----------------------------------------------------------------------------
LEMMA InitBuffer == Init => BufferInv
<1> SUFFICES ASSUME Init PROVE BufferInv
  OBVIOUS
<1>1. PICK kinds \in [Files \cup {Std} -> Contents] :
        orig = [f \in Files \cup {Std} |->
                 IF \E i \in DOMAIN setup.args : setup.args[i] = f
                 THEN [i \in DOMAIN kinds[f] |-> <<"in", kinds[f][i], f, i>>]
                 ELSE <<>>]
  BY DEF Init
<1>2. \A f \in Files \cup {Std} : orig[f] \in Text
  <2> TAKE f \in Files \cup {Std}
  <2>1. kinds[f] \in Seq(Kinds)
    BY ConvertAssumption
  <2> DEFINE k == kinds[f]
             E(i) == <<"in", k[i], f, i>>
  <2>2. \A i \in 1 .. Len(k) : E(i) \in Byte
    BY <2>1 DEF Byte, Atoms
  <2>3. DOMAIN k = 1 .. Len(k) /\ Len(k) \in Nat
    BY <2>1
  <2>4. [i \in 1 .. Len(k) |-> E(i)] \in Text
    <3> HIDE DEF E
    <3> QED BY <2>2, <2>3 DEF Text
  <2> QED BY <1>1, <2>3, <2>4, TextEmpty, SpecialBuffers DEF Stream, EmptyBuffer
<1>3. orig \in [Files \cup {Std} -> Text]
  BY <1>1, <1>2
<1>4. /\ mem = [b \in Buffers |-> EmptyBuffer] /\ pc = "main" /\ err = "OK"
      /\ fsize = 0 /\ used = 0
      /\ obj = [o \in Objects |->
              [data |-> IF o \in Files THEN orig[o]
                        ELSE IF o = "stdin" THEN orig[Std] ELSE <<>>,
               pos |-> 0]]
  BY DEF Init
<1>5. <<>> \in Text /\ Len(<<>>) = 0
  BY SpecialBuffers DEF Text
<1>6. \A o \in Objects : obj[o] \in Stream
  BY <1>2, <1>4, <1>5 DEF Stream
<1>7. obj \in [Objects -> Stream]
  BY <1>4, <1>6
<1>8. Tight("stdout") /\ Tight(Temp)
  BY <1>4, <1>5, FilebufAssumption DEF Tight, Objects, Temp, Std
<1> QED
  BY <1>3, <1>4, <1>7, <1>8, SpecialBuffers
     DEF BufferInv, StoreOK, ObjectsOK, BuffersOK, PlacesOK, BetweenFiles, NamedOnly, Seeked, Rewound, MainSize,
         Buffers
-----------------------------------------------------------------------------
(* What is known at a point of process_file(). *)
LEMMA AtWork ==
  ASSUME StreamInv, BufferInv, pc \notin {"main", "stopped"}
  PROVE  /\ h \in Files \cup {Std} /\ h \in Handles
         /\ pc \notin ReturnPoints => err # "IOFAIL" /\ MainSize >= 0
         /\ MainSize \in Int /\ mem["iconv"].pos \in Int
         /\ mem["main"].data \in Text /\ mem["iconv"].data \in Text
         /\ h # Std => h \in Objects /\ h \in Handles /\ h \in Files
                       /\ h \notin {"stdin", "stdout", Temp}
         /\ fsize \in Nat
<1>1. h \in Files \cup {Std} /\ h \in Handles
  BY CurrentHandle
<1>2. pc \notin ReturnPoints => err # "IOFAIL" /\ MainSize # -1
  BY DEF StreamInv, BufferInv, PlacesOK, ReturnPoints, BetweenFiles
<1>3. /\ MainSize \in Int /\ mem["iconv"].pos \in Int /\ MainSize >= -1
      /\ mem["main"].data \in Text /\ mem["iconv"].data \in Text
  BY StoreTypes, SizeType DEF BufferInv, StoreOK, BuffersOK, Buffers, MainSize
<1> QED
  BY <1>1, <1>2, <1>3, FilebufAssumption DEF Objects, Handles, BufferInv, PlacesOK

LEMMA BufferMain ==
  ASSUME StreamInv, BufferInv, Main PROVE BufferInv'
<1> USE DEF BufferInv, PlacesOK, BetweenFiles, NamedOnly, Seeked, Rewound, MainSize, h,
            ctlrest, Jump, Goto, Try, Stop, Report
<1> StoreOK
  OBVIOUS
<1> HIDE DEF BufferInv, PlacesOK
<1>1. CASE OpenFile
  <2>1. h \in Files \cup {Std} /\ h \in Handles
    BY <1>1, MainHandle DEF OpenFile
  <2>2. mem' = [mem EXCEPT !["main"] = EmptyBuffer]
    BY <1>1 DEF OpenFile, FileOpen, FileOpenFails
  <2>3. BuffersOK' /\ BuffersKept("main") /\ mem'["main"].pos = 0
    BY <2>2, SetBuffer, SpecialBuffers DEF Buffers
  <2>4. CASE obj' = obj
    <3>1. StoreOK'
      BY <2>3, <2>4, SameObjects DEF StoreOK
    <3>2. Len(obj[Source(h)].data) \in Nat
      BY <2>1, Places, StoreTypes
    <3> QED BY <1>1, <2>1, <2>3, <3>1, <3>2, SpecialBuffers DEF OpenFile, BufferInv, PlacesOK
  <2>5. CASE FileOpen(h) /\ h # Std
    <3>1. h \in Objects /\ h \notin {"stdout", Temp}
      BY <2>1, <2>5, FilebufAssumption DEF Objects
    <3>2. obj' = [obj EXCEPT ![h].pos = 0]
      BY <2>5 DEF FileOpen
    <3>3. ObjectsOK'
      BY <3>1, <3>2, SeekStore
    <3>4. Len(obj[Source(h)].data) \in Nat
      BY <2>1, Places, StoreTypes
    <3>5. StoreOK'
      BY <2>3, <3>3 DEF StoreOK
    <3>6. /\ pc' \in {"sample", "main", "stopped"} /\ fsize' \in Nat
          /\ UNCHANGED <<orig, used>>
      BY <1>1, <3>4 DEF OpenFile, BufferInv, PlacesOK
    <3> QED
      BY <2>3, <3>5, <3>6 DEF BufferInv, PlacesOK
  <2> QED BY <1>1, <2>4, <2>5 DEF OpenFile, FileOpen, FileOpenFails
<1>2. CASE ReadSample
  <2> USE AtWork
  <2>1. CASE pc = "sample" /\ FileRead(h, "main") /\ Jump("analyse", err)
    <3>1. /\ StoreOK' /\ mem'["main"].pos = mem["main"].pos + Len(Fetched(h, "main"))
          /\ Len(Fetched(h, "main")) \in Nat
      BY <2>1, ReadStore, FetchedFacts DEF Buffers
    <3>2. mem'["main"].pos # -1
      BY <2>1, <3>1 DEF ReturnPoints
    <3> QED BY <1>2, <2>1, <3>1, <3>2 DEF BufferInv, PlacesOK
  <2>2. CASE pc = "sample" /\ FileReadFails(h, "main") /\ Jump("finish", "IOFAIL")
    <3>1. StoreOK'
      BY <2>2, ReadFailsStore DEF Buffers
    <3> QED BY <2>2, <3>1 DEF BufferInv, PlacesOK
  <2> QED BY <1>2, <2>1, <2>2 DEF ReadSample
<1>3. CASE Analyse
  <2>1. StoreOK'
    BY <1>3, SameObjects, SameBuffers DEF Analyse, fbvars, StoreOK
  <2> QED BY <1>3, <2>1, AtWork DEF Analyse, fbvars, BufferInv, PlacesOK, ReturnPoints, Std, Temp
<1>4. CASE FinishFile
  <2>1. StoreOK'
    BY <1>4, SameObjects, SameBuffers DEF FinishFile, StoreOK
  <2> QED BY <1>4, <2>1 DEF FinishFile, BufferInv, PlacesOK
<1>5. CASE Exit
  <2>1. StoreOK'
    BY <1>5, SameObjects, SameBuffers DEF Exit, StoreOK
  <2> QED BY <1>5, <2>1 DEF Exit, BufferInv, PlacesOK, ExitStatus
<1> QED BY <1>1, <1>2, <1>3, <1>4, <1>5 DEF Main

LEMMA BufferChoose ==
  ASSUME StreamInv, BufferInv, Choose PROVE BufferInv'
<1>1. StoreOK'
  BY SameObjects, SameBuffers
     DEF Choose, TryConverter, Refuse, Returned, fbvars, StoreOK, BufferInv
<1>2. todo # <<>> => Head(todo) \in Converters
  BY HeadTailProperties DEF StreamInv, TypeOK
<1>3. CASE TryConverter
  BY <1>1, <1>2, <1>3, AtWork
     DEF TryConverter, BufferInv, PlacesOK, BetweenFiles, NamedOnly, Seeked, Rewound, MainSize, h,
         ctlrest, Jump, Goto, Call, ReturnPoints, Converters, fbvars, Std, Temp
<1>4. CASE Refuse
  BY <1>1, <1>4
     DEF Refuse, BufferInv, PlacesOK, BetweenFiles, NamedOnly, Seeked, Rewound, MainSize, h,
         ctlrest, Jump, Goto, fbvars
<1>5. CASE Returned
  BY <1>1, <1>5
     DEF Returned, BufferInv, PlacesOK, BetweenFiles, NamedOnly, Seeked, Rewound, MainSize, h,
         ctlrest, Jump, Goto, fbvars
<1> QED BY <1>3, <1>4, <1>5 DEF Choose

(* A step that stays with its file, and one that gives up on it. *)
LEMMA JumpFacts ==
  ASSUME NEW l, NEW e, Jump(l, e)
  PROVE  /\ pc' = l \/ pc' = "stopped"
         /\ err' = e /\ h' = h
         /\ UNCHANGED <<setup, orig, cur, req, todo, fsize, call, used, eof>>
BY DEF Jump, Goto, h, ctlrest

LEMMA CallFacts ==
  ASSUME NEW f, NEW t, NEW x, NEW b, NEW l, Call(f, t, x, b, l)
  PROVE  /\ pc' = "copy_write" \/ pc' = "stopped"
         /\ call'.from = f /\ call'.to = t /\ call'.ret = l /\ call'.buf = b
         /\ call'.xlat = x /\ h' = h
         /\ UNCHANGED <<setup, orig, err, cur, req, todo, fsize, used, eof>>
BY DEF Call, Goto, h

LEMMA GiveUp ==
  ASSUME BufferInv, StoreOK', NEW l \in ReturnPoints, Jump(l, "IOFAIL"),
         l \in NamedOnly => h # Std
  PROVE  BufferInv'
<1>1. /\ pc' = l \/ pc' = "stopped"
      /\ err' = "IOFAIL" /\ h' = h /\ UNCHANGED <<orig, fsize, used, call>>
  BY JumpFacts
<1>2. pc' \notin Seeked \cup Rewound \cup {"copy_write", "copy_read", "bi_seek"}
  BY <1>1 DEF Seeked, Rewound, ReturnPoints
<1>3. pc' \in NamedOnly => h # Std
  BY <1>1 DEF NamedOnly
<1> QED BY <1>1, <1>2, <1>3 DEF BufferInv, PlacesOK, Seeked

LEMMA SameStore ==
  ASSUME StoreOK, UNCHANGED <<obj, mem>>
  PROVE  StoreOK'
BY SameObjects, SameBuffers DEF StoreOK

LEMMA SeekStep ==
  ASSUME StoreOK, NEW x \in Objects, NEW p \in Nat, p <= Len(obj[x].data),
         FileSeek(x, p)
  PROVE  /\ StoreOK' /\ OthersKept(x) /\ mem' = mem
         /\ obj'[x].pos = p /\ obj'[x].data = obj[x].data
         /\ obj'[x].pos <= Len(obj'[x].data)
<1>1. obj' = [obj EXCEPT ![x].pos = p] /\ mem' = mem
  BY DEF FileSeek
<1>2. /\ ObjectsOK' /\ OthersKept(x) /\ obj'[x].pos = p
      /\ obj'[x].data = obj[x].data
  BY <1>1, SeekStore
<1> QED BY <1>1, <1>2, SameBuffers DEF StoreOK
-----------------------------------------------------------------------------
(* What call says of a copy that is going on. *)
LEMMA AtCopy ==
  ASSUME StreamInv, BufferInv, pc \in {"copy_write", "copy_read"}
  PROVE  /\ call.from \in Handles /\ call.to \in Handles /\ call.buf \in Buffers
         /\ CopyBytes \in Text /\ Tight(Sink(call.to))
         /\ call.to # Std => Source(call.from) # call.to
         /\ call.ret \in ReturnPoints \ {"stopped"}
         /\ call.ret \in NamedOnly => h # Std
<1>1. h \in Files \cup {Std} /\ CallOK /\ call.buf \in Buffers /\ StoreOK
  BY CurrentHandle DEF StreamInv, BufferInv, TypeOK
<1>2. mem[call.buf].data \in Text
  BY <1>1, StoreTypes
<1>3. CopyBytes \in Text
  BY <1>2, XlatType DEF CopyBytes
<1>4. call.from \in Handles /\ call.to \in Handles
  BY <1>1 DEF CallOK, Handles
<1>5. Tight(Sink(call.to))
  BY <1>1 DEF BufferInv, StoreOK, ObjectsOK, PlacesOK, Sink
<1>6. call.to # Std => Source(call.from) # call.to
  BY <1>1, FilebufAssumption DEF CallOK, Source, Std, Temp
<1>7. call.ret \in ReturnPoints \ {"stopped"}
  BY <1>1 DEF CallOK, ReturnPoints
<1>8. call.ret \in NamedOnly => h # Std
  BY DEF BufferInv, PlacesOK
<1> QED BY <1>1, <1>3, <1>4, <1>5, <1>6, <1>7, <1>8

LEMMA BufferCopy ==
  ASSUME StreamInv, BufferInv, Copy PROVE BufferInv'
<1> pc \in {"copy_write", "copy_read"} /\ h' = h
  BY DEF Copy, CopyWrite, CopyRead, CopyFlushFails, Try, Jump, ctlrest, h
<1> StoreOK
  BY DEF BufferInv
<1>1. CASE CopyWrite
  <2>1. CASE /\ FileWrite(call.to, call.buf, CopyBytes)
             /\ Jump("copy_read", err) /\ pc = "copy_write"
    <3>0. /\ StoreOK' /\ BuffersKept(call.buf) /\ mem'[call.buf] = EmptyBuffer
          /\ obj'[Sink(call.to)].pos <= Len(obj'[Sink(call.to)].data)
      BY <2>1, AtCopy, WriteStore DEF Tight
    <3>1. mem'[call.buf].pos = 0
      BY <3>0, SpecialBuffers
    <3>2. /\ pc' \in {"copy_read", "stopped"}
          /\ err' = err /\ UNCHANGED <<orig, fsize, used, call>>
      BY <2>1, JumpFacts
    <3>3. call.to # Std => Tight(call.to)'
      BY <3>0, <3>2 DEF Sink, Tight
    <3>4. MainSize' = -1 => MainSize = -1
      BY <3>0, <3>1 DEF BuffersKept, Buffers, MainSize
    <3> HIDE DEF MainSize
    <3> QED
      BY <3>0, <3>1, <3>2, <3>3, <3>4
         DEF BufferInv, PlacesOK, BetweenFiles, NamedOnly, Seeked, Rewound, Tight
  <2>2. CASE /\ FileWriteFails(call.to, call.buf, CopyBytes)
             /\ Jump(call.ret, "IOFAIL") /\ pc = "copy_write"
    BY <2>2, AtCopy, WriteFailsStore, GiveUp
  <2> QED BY <1>1, <2>1, <2>2 DEF CopyWrite, Try
<1>2. CASE CopyRead
  <2>1. CASE /\ FileRead(call.from, call.buf)
             /\ (Jump(call.ret, "OK") \/ Jump("copy_write", err))
    <3>1. /\ StoreOK' /\ OthersKept(Source(call.from)) /\ BuffersKept(call.buf)
          /\ mem'[call.buf].pos = mem[call.buf].pos + Len(Fetched(call.from, call.buf))
          /\ Len(Fetched(call.from, call.buf)) \in Nat
          /\ mem[call.buf].pos \in Int
      BY <2>1, AtCopy, ReadStore, FetchedFacts, StoreTypes
    <3>2. call.to # Std => obj'[call.to] = obj[call.to]
      BY <3>1, AtCopy DEF OthersKept, Objects, Handles
    <3>3. mem'["main"].pos # -1
      <4>1. mem["main"].pos \in Int /\ mem["main"].pos >= -1 /\ mem["main"].pos # -1
        BY StoreTypes, SizeType
           DEF BufferInv, PlacesOK, StoreOK, BuffersOK, Buffers, StreamInv,
               ReturnPoints, MainSize, BetweenFiles
      <4> QED BY <3>1, <4>1, AtCopy DEF BuffersKept, Buffers
    <3>4. /\ pc' \in {"copy_write", "stopped", call.ret}
          /\ UNCHANGED <<orig, fsize, used, call>>
      BY <2>1, JumpFacts
    <3> QED
      BY <3>1, <3>2, <3>3, <3>4, AtCopy
         DEF BufferInv, PlacesOK, ReturnPoints, Tight, MainSize, BetweenFiles, NamedOnly, Seeked, Rewound
  <2>2. CASE FileReadFails(call.from, call.buf) /\ Jump(call.ret, "IOFAIL")
    BY <2>2, AtCopy, ReadFailsStore, GiveUp
  <2> QED BY <1>2, <2>1, <2>2 DEF CopyRead
<1>3. CASE CopyFlushFails
  <2>1. PICK k \in 0 .. Len(obj["stdout"].data) - 1 :
          obj' = [obj EXCEPT !["stdout"] = [data |-> SubSeq(@.data, 1, k), pos |-> k]]
    BY <1>3 DEF CopyFlushFails, FlushLoses
  <2>2. "stdout" \in Objects /\ obj["stdout"].data \in Text
        /\ Len(obj["stdout"].data) \in Nat
    BY StoreTypes DEF Objects
  <2>3. SubSeq(obj["stdout"].data, 1, k) \in Text
        /\ Len(SubSeq(obj["stdout"].data, 1, k)) = k
    BY <2>2, TextPart
  <2>4. [data |-> SubSeq(obj["stdout"].data, 1, k), pos |-> k] \in Stream
    BY <2>2, <2>3 DEF Stream
  <2>5. ObjectsOK'
    <3> DEFINE v == [data |-> SubSeq(obj["stdout"].data, 1, k), pos |-> k]
    <3>1. obj' = [obj EXCEPT !["stdout"] = v]
      BY <2>1
    <3>2. v \in Stream /\ v.pos <= Len(v.data)
      BY <2>3, <2>4
    <3> HIDE DEF v
    <3> QED BY <2>2, <3>1, <3>2, SetObject
  <2>6. StoreOK' /\ mem' = mem
    BY <1>3, <2>5, SameBuffers DEF StoreOK, CopyFlushFails, FlushLoses
  <2>7. /\ pc' \in {call.ret, "stopped"} /\ pc = "copy_read"
        /\ UNCHANGED <<orig, fsize, used, call>>
    BY <1>3, JumpFacts DEF CopyFlushFails
  <2>8. mem["main"].pos # -1
    BY DEF BufferInv, PlacesOK, StreamInv, ReturnPoints, MainSize, BetweenFiles
  <2> QED
    BY <2>6, <2>7, <2>8, AtCopy
       DEF BufferInv, PlacesOK, ReturnPoints, MainSize, BetweenFiles, NamedOnly, Seeked, Rewound
<1> QED BY <1>1, <1>2, <1>3 DEF Copy

LEMMA BufferBuiltin ==
  ASSUME StreamInv, BufferInv, BuiltinStep PROVE BufferInv'
<1> USE DEF BetweenFiles, NamedOnly, Seeked, Rewound, MainSize
<1> pc \notin ReturnPoints \cup {"main", "stopped"} /\ h' = h
  BY DEF BuiltinStep, Builtin, BuiltinSeek, BuiltinRead, BuiltinSeekBack,
         BuiltinWrite, BuiltinSync, ReturnPoints, Try, Jump, Call, ctlrest, h
<1> StoreOK
  BY DEF BufferInv
<1>0. /\ mem["main"].pos \in Int /\ mem["main"].pos >= 0
      /\ h # Std => h \in Files /\ h \in Objects /\ h \in Handles
                    /\ h \notin {"stdin", "stdout", Temp}
                    /\ Source(h) = h /\ Sink(h) = h
                    /\ obj[h].pos \in Nat /\ Len(obj[h].data) \in Nat
  BY AtWork, StoreTypes DEF Source, Sink
<1>1. CASE Builtin
  <2>1. CASE UNCHANGED fbvars /\ pc' \in {"returned", "stopped"} /\ UNCHANGED <<orig, fsize, used, call>>
    BY <1>0, <2>1, SameStore DEF fbvars, BufferInv, PlacesOK
  <2>2. CASE UNCHANGED fbvars /\ h = Std /\ Call(h, h, req.builtin = "xlat", "main", "returned")
    <3>1. StoreOK'
      BY <2>2, SameStore DEF fbvars
    <3> QED BY <1>0, <2>2, <3>1, CallFacts DEF fbvars, BufferInv, PlacesOK, Std, Temp
  <2>3. CASE /\ pc = "builtin" /\ h # Std /\ obj' = obj
             /\ mem' = [mem EXCEPT !["main"] = EmptyBuffer] /\ Jump("bi_seek", err)
    <3>1. StoreOK' /\ mem'["main"].pos = 0
      BY <2>3, SameObjects, SetBuffer, SpecialBuffers DEF StoreOK, Buffers
    <3> QED BY <2>3, <3>1, JumpFacts DEF BufferInv, PlacesOK
  <2> QED BY <1>1, <2>1, <2>2, <2>3, JumpFacts DEF Builtin
<1>2. CASE BuiltinSeek \/ BuiltinSync
  <2>0. h # Std /\ MainSize = 0 /\ pc \in {"bi_seek", "bi_sync"}
    BY <1>2 DEF BuiltinSeek, BuiltinSync, BufferInv, PlacesOK, Try
  <2>1. CASE /\ FileSeek(h, 0) \/ (pc = "bi_sync" /\ FileSeek(h, obj[h].pos))
             /\ Jump("bi_read", err)
    <3>1. PICK p \in Nat : p <= Len(obj[h].data) /\ FileSeek(h, p)
      <4>1. /\ 0 \in Nat /\ 0 <= Len(obj[h].data)
            /\ pc = "bi_sync" => obj[h].pos <= Len(obj[h].data)
        BY <1>0, <2>0 DEF BufferInv, PlacesOK, Tight
      <4> QED BY <1>0, <2>0, <2>1, <4>1
    <3>2. StoreOK' /\ Tight(h)' /\ mem' = mem
      BY <1>0, <2>0, <3>1, SeekStep DEF Tight
    <3> QED BY <2>0, <2>1, <3>2, JumpFacts DEF BufferInv, PlacesOK
  <2>2. CASE FileSeekFails(h) /\ Jump("returned", "IOFAIL")
    BY <2>2, SameStore, GiveUp DEF FileSeekFails, ReturnPoints
  <2> QED BY <1>2, <2>1, <2>2 DEF BuiltinSeek, BuiltinSync, Try
<1>3. CASE BuiltinRead
  <2>0. h # Std /\ MainSize = 0 /\ pc = "bi_read" /\ Tight(h)
    BY <1>3 DEF BuiltinRead, BufferInv, PlacesOK
  <2>1. CASE FileRead(h, "main") /\ (Jump("returned", "OK") \/ Jump("bi_back", err))
    <3>1. /\ StoreOK' /\ Tight(h)'
          /\ mem'["main"].pos = mem["main"].pos + Len(Fetched(h, "main"))
          /\ obj'[h].pos = obj[h].pos + Len(Fetched(h, "main"))
          /\ Len(Fetched(h, "main")) \in Nat
      BY <1>0, <2>0, <2>1, ReadStore, FetchedFacts DEF Buffers
    <3>2. mem'["main"].pos >= 0 /\ mem'["main"].pos <= obj'[h].pos
          /\ mem'["main"].pos \in Int
      BY <1>0, <2>0, <3>1
    <3>3. pc' \in {"returned", "bi_back", "stopped"} /\ UNCHANGED <<orig, fsize, used, call>>
      BY <2>1, JumpFacts
    <3> QED BY <2>0, <3>1, <3>2, <3>3 DEF BufferInv, PlacesOK
  <2>2. CASE FileReadFails(h, "main") /\ Jump("returned", "IOFAIL")
    BY <2>2, ReadFailsStore, GiveUp DEF Buffers, ReturnPoints
  <2> QED BY <1>3, <2>1, <2>2 DEF BuiltinRead
<1>4. CASE BuiltinSeekBack
  <2>0. h # Std /\ MainSize <= obj[h].pos /\ pc = "bi_back" /\ Tight(h)
    BY <1>4 DEF BuiltinSeekBack, BufferInv, PlacesOK, Try
  <2>1. CASE FileSeek(h, obj[h].pos - mem["main"].pos) /\ Jump("bi_write", err)
    <3>1. obj[h].pos - mem["main"].pos \in Nat
          /\ obj[h].pos - mem["main"].pos <= Len(obj[h].data)
      BY <1>0, <2>0 DEF Tight
    <3>2. StoreOK' /\ Tight(h)' /\ mem' = mem
      BY <1>0, <2>0, <2>1, <3>1, SeekStep DEF Tight
    <3> QED BY <1>0, <2>0, <2>1, <3>2, JumpFacts DEF BufferInv, PlacesOK
  <2>2. CASE FileSeekFails(h) /\ Jump("returned", "IOFAIL")
    BY <2>2, SameStore, GiveUp DEF FileSeekFails, ReturnPoints
  <2> QED BY <1>4, <2>1, <2>2 DEF BuiltinSeekBack, Try
<1>5. CASE BuiltinWrite
  <2> DEFINE bytes == Xlat(mem["main"].data)
  <2>0. h # Std /\ pc = "bi_write" /\ Tight(Sink(h))
    BY <1>0, <1>5 DEF BuiltinWrite, BufferInv, PlacesOK, Try
  <2>a. bytes \in Text
    BY AtWork, XlatType
  <2>1. CASE FileWrite(h, "main", bytes) /\ Jump("bi_sync", err)
    <3> HIDE DEF bytes
    <3>1. StoreOK' /\ Tight(h)' /\ mem'["main"].pos = 0
      BY <1>0, <2>0, <2>a, <2>1, WriteStore, SpecialBuffers DEF Buffers, Tight
    <3> QED BY <2>0, <2>1, <3>1, JumpFacts DEF BufferInv, PlacesOK
  <2>2. CASE FileWriteFails(h, "main", bytes) /\ Jump("returned", "IOFAIL")
    <3> HIDE DEF bytes
    <3> QED BY <1>0, <2>0, <2>a, <2>2, WriteFailsStore, GiveUp DEF Buffers, ReturnPoints
  <2> QED BY <1>5, <2>1, <2>2 DEF BuiltinWrite, Try
<1> QED BY <1>1, <1>2, <1>3, <1>4, <1>5 DEF BuiltinStep

(* A temporary file is made, closed, or cannot be had. *)
LEMMA TempStore ==
  ASSUME StoreOK, obj' = [obj EXCEPT ![Temp] = EmptyBuffer], mem' = mem
  PROVE  StoreOK' /\ OthersKept(Temp) /\ obj'[Temp] = EmptyBuffer
<1>1. Temp \in Objects /\ EmptyBuffer.pos <= Len(EmptyBuffer.data)
  BY SpecialBuffers DEF Objects
<1> QED BY <1>1, SetObject, SameBuffers, SpecialBuffers DEF StoreOK

LEMMA PrefixType ==
  ASSUME NEW s \in Text, NEW p \in Prefixes(s)
  PROVE  p \in Text /\ Len(p) <= Len(s) /\ p = SubSeq(s, 1, Len(p))
<1>1. PICK k \in 0 .. Len(s) : p = SubSeq(s, 1, k)
  BY DEF Prefixes
<1> QED BY <1>1, TextPart, TextLen

LEMMA CharFacts ==
  ASSUME NEW s \in Text, NEW i \in 1 .. Len(s)
  PROVE  /\ CharAt(s, i) \in {-1, 0, 1, 2}
         /\ CharAt(s, i) = -1 <=> s[i][2] = "l" /\ i = Len(s)
         /\ CharAt(s, i) = 1 <=> s[i][2] \in {"a", "w"}
         /\ CharAt(s, i) = 2 <=> s[i][2] = "l" /\ i < Len(s) /\ s[i + 1][2] = "t"
<1>1. CASE s[i][2] \in {"a", "w"}
  BY <1>1 DEF CharAt
<1>2. CASE s[i][2] = "l" /\ i = Len(s)
  BY <1>2 DEF CharAt
<1>3. CASE s[i][2] = "l" /\ i < Len(s) /\ s[i + 1][2] = "t"
  BY <1>3 DEF CharAt
<1>4. CASE /\ s[i][2] \notin {"a", "w"}
           /\ ~(s[i][2] = "l" /\ i = Len(s))
           /\ ~(s[i][2] = "l" /\ i < Len(s) /\ s[i + 1][2] = "t")
  BY <1>4 DEF CharAt
<1> QED BY <1>1, <1>2, <1>3, <1>4

(* A step to a point of which nothing is asked. *)
LEMMA Onward ==
  ASSUME StreamInv, BufferInv, StoreOK', NEW l, NEW e, Jump(l, e),
         l \notin {"copy_write", "copy_read", "bi_seek", "bi_back"} \cup Seeked \cup Rewound,
         l \in NamedOnly => h # Std,
         mem'["main"].pos # -1 \/ e = "IOFAIL"
  PROVE  BufferInv'
<1>1. /\ pc' = l \/ pc' = "stopped"
      /\ err' = e /\ h' = h /\ UNCHANGED <<orig, fsize, used, call>>
  BY JumpFacts
<1> QED
  BY <1>1 DEF BufferInv, PlacesOK, NamedOnly, Seeked, Rewound, MainSize

LEMMA Stopped ==
  ASSUME BufferInv, UNCHANGED <<obj, mem>>, Jump("stopped", err)
  PROVE  BufferInv'
<1>1. StoreOK'
  BY SameStore DEF BufferInv
<1>2. /\ pc' = "stopped" /\ h' = h /\ UNCHANGED <<orig, fsize, used, call>>
  BY JumpFacts
<1> QED
  BY <1>1, <1>2
     DEF BufferInv, PlacesOK, NamedOnly, Seeked, Rewound, MainSize, BetweenFiles

LEMMA BufferIconv ==
  ASSUME StreamInv, BufferInv, IconvStep PROVE BufferInv'
<1> DEFINE m == mem["main"]
           c == mem["iconv"]
<1> USE DEF BetweenFiles, NamedOnly, Seeked, Rewound, MainSize
<1> pc \notin {"main", "stopped"} /\ h' = h /\ StoreOK
  BY DEF IconvStep, IconvStart, IconvDies, IconvTemp, IconvSave, IconvSaved,
         IconvRewind, IconvTruncate, IconvRead, IconvReadAborts, IconvCharacter,
         IconvFull, IconvBlockEnd, IconvWrite, IconvMalformed, Recover,
         RecoverSeekFrom, RecoverSeekTo, RecoverTruncate, RecoverDone,
         IconvFree, FreeTemp, Try, Jump, Call, ctlrest, h, Stop, BufferInv
<1>0. /\ m.pos \in Int /\ m.data \in Text /\ c.data \in Text
      /\ c.pos \in -1 .. IconvSize /\ Len(c.data) = IF c.pos = -1 THEN 0 ELSE c.pos
      /\ m.pos \in -1 .. BufSize /\ Len(m.data) = IF m.pos = -1 THEN 0 ELSE m.pos
      /\ h \in Handles /\ Temp \in Handles /\ Temp \in Objects
      /\ h # Std => h \in Files /\ h \in Objects
                    /\ h \notin {"stdin", "stdout", Temp}
                    /\ Source(h) = h /\ Sink(h) = h
                    /\ obj[h].pos \in Nat /\ Len(obj[h].data) \in Nat
      /\ Len(obj[Temp].data) \in Nat /\ obj[Temp].pos \in Nat /\ Sink(Temp) = Temp
      /\ Source(Temp) = Temp /\ Tight(Temp)
  BY AtWork, StoreTypes DEF Source, Sink, Handles, Objects, StoreOK, BuffersOK, ObjectsOK, Buffers, Size, Std, Temp
<1>a. /\ pc \notin ReturnPoints => m.pos # -1 /\ err # "IOFAIL"
      /\ h # Std /\ pc \in Seeked => Tight(h)
      /\ Tight(Sink(h)) \/ pc \notin Seeked
      /\ h # Std /\ pc \in Rewound => obj[h].pos = 0
      /\ orig \in [Files \cup {Std} -> Text] /\ fsize \in Nat /\ used \in Nat
      /\ pc \in {"ic_conv", "ic_full"} => used <= c.pos
  BY AtWork DEF BufferInv, PlacesOK, StoreOK, ObjectsOK, Sink
<1> HIDE DEF m, c
<1>1. CASE IconvStart
  <2>1. UNCHANGED <<obj, mem>> /\ (Jump("ic_temp", err) \/ Jump("returned", "CANNOT"))
        /\ pc \notin ReturnPoints
    BY <1>1 DEF IconvStart, fbvars, ReturnPoints
  <2> QED BY <1>a, <2>1, SameStore, Onward DEF m
<1>2. CASE IconvDies \/ IconvReadAborts
  BY <1>2, Stopped DEF IconvDies, IconvReadAborts, Stop
<1>3. CASE IconvTemp
  <2>1. CASE FileTemporary(TRUE) /\ pc = "ic_temp" /\ Jump("ic_save", err)
    <3>1. StoreOK' /\ mem' = mem
      BY <2>1, TempStore DEF FileTemporary
    <3> QED BY <1>a, <2>1, <3>1, Onward DEF m, ReturnPoints
  <2>2. CASE FileTemporaryFails /\ Jump("ic_free", "IOFAIL")
    BY <2>2, SameStore, Onward DEF FileTemporaryFails, fbvars
  <2>3. CASE FileTemporaryExits /\ Stop
    BY <2>3, Stopped DEF FileTemporaryExits, Stop
  <2> QED BY <1>3, <2>1, <2>2, <2>3 DEF IconvTemp, Try
<1>4. CASE IconvSave
  <2>1. CASE FileWrite(Temp, "main", m.data) /\ Call(h, Temp, FALSE, "main", "ic_saved")
    <3>1. StoreOK' /\ mem'["main"] = EmptyBuffer /\ Tight(Temp)'
      BY <1>0, <2>1, WriteStore DEF Buffers, StoreOK, ObjectsOK
    <3>2. mem'["main"].pos = 0
      BY <3>1, SpecialBuffers
    <3>3. h # Temp
      BY <1>0 DEF Std, Temp
    <3>4. /\ pc' \in {"copy_write", "stopped"}
          /\ call'.from = h /\ call'.to = Temp /\ call'.ret = "ic_saved"
          /\ UNCHANGED <<orig, fsize, used>>
      BY <2>1, CallFacts
    <3> QED BY <1>a, <3>1, <3>2, <3>3, <3>4 DEF BufferInv, PlacesOK
  <2>2. CASE FileWriteFails(Temp, "main", m.data) /\ Jump("ic_free", "IOFAIL")
    <3>1. StoreOK'
      BY <1>0, <2>2, WriteFailsStore DEF Buffers
    <3> QED BY <2>2, <3>1, Onward
  <2> QED BY <1>4, <2>1, <2>2 DEF IconvSave, m
<1>5. CASE IconvSaved
  <2>1. CASE UNCHANGED fbvars /\ Jump("ic_free", "IOFAIL")
    BY <2>1, SameStore, Onward DEF fbvars
  <2>2. CASE UNCHANGED fbvars /\ h = Std /\ err = "OK" /\ Jump("ic_rewind", err) /\ pc = "ic_saved"
    <3>1. StoreOK' /\ pc' \in {"ic_rewind", "stopped"} /\ UNCHANGED <<orig, fsize, used, call>>
      BY <2>2, SameStore, JumpFacts DEF fbvars
    <3> QED BY <1>a, <2>2, <3>1 DEF BufferInv, PlacesOK, fbvars
  <2>3. CASE FileSeek(h, 0) /\ h # Std /\ err = "OK" /\ Jump("ic_rewind", err) /\ pc = "ic_saved"
    <3>1. StoreOK' /\ obj'[h].pos = 0 /\ mem' = mem
      BY <1>0, <2>3, SeekStep
    <3>2. pc' \in {"ic_rewind", "stopped"} /\ UNCHANGED <<orig, fsize, used, call>>
      BY <2>3, JumpFacts
    <3> QED BY <1>a, <2>3, <3>1, <3>2 DEF BufferInv, PlacesOK
  <2>4. CASE FileSeekFails(h) /\ Jump("ic_free", "IOFAIL")
    BY <2>4, SameStore, Onward DEF FileSeekFails
  <2> QED BY <1>5, <2>1, <2>2, <2>3, <2>4 DEF IconvSaved, Try
<1>6. CASE IconvRewind
  <2>1. CASE FileSeek(Temp, 0) /\ Jump("ic_trunc", err) /\ pc = "ic_rewind"
    <3>1. StoreOK' /\ OthersKept(Temp) /\ mem' = mem
      BY <1>0, <2>1, SeekStep
    <3>2. pc' \in {"ic_trunc", "stopped"} /\ UNCHANGED <<orig, fsize, used, call>>
      BY <2>1, JumpFacts
    <3>3. h # Std => obj'[h] = obj[h]
      BY <1>0, <3>1 DEF OthersKept
    <3> QED BY <1>a, <2>1, <3>1, <3>2, <3>3 DEF BufferInv, PlacesOK, ReturnPoints, m
  <2>2. CASE FileSeekFails(Temp) /\ Jump("ic_free", "IOFAIL")
    BY <2>2, SameStore, Onward DEF FileSeekFails
  <2> QED BY <1>6, <2>1, <2>2 DEF IconvRewind, Try
<1>7. CASE IconvTruncate
  <2>1. CASE FileTruncate(h, 0) /\ h # Std /\ Jump("ic_read", err) /\ pc = "ic_trunc"
    <3>1. StoreOK' /\ obj'[h].pos = 0 /\ Len(obj'[h].data) = 0 /\ mem' = mem
      BY <1>0, <1>a, <2>1, TruncateStore, SameBuffers DEF FileTruncate, StoreOK
    <3>2. pc' \in {"ic_read", "stopped"} /\ UNCHANGED <<orig, fsize, used, call>>
      BY <2>1, JumpFacts
    <3> QED BY <1>a, <2>1, <3>1, <3>2 DEF BufferInv, PlacesOK, ReturnPoints, m, Tight
  <2>2. CASE FileTruncateFails(h) /\ Jump("ic_free", "IOFAIL")
    BY <2>2, SameStore, Onward DEF FileTruncateFails
  <2>3. CASE UNCHANGED fbvars /\ h = Std /\ Jump("ic_read", err) /\ pc = "ic_trunc"
    <3>1. StoreOK' /\ pc' \in {"ic_read", "stopped"} /\ UNCHANGED <<orig, fsize, used, call>>
      BY <2>3, SameStore, JumpFacts DEF fbvars
    <3> QED BY <1>a, <2>3, <3>1 DEF BufferInv, PlacesOK, fbvars, ReturnPoints, m
  <2> QED BY <1>7, <2>1, <2>2, <2>3 DEF IconvTruncate, Try
<1>8. CASE IconvRead
  <2>1. CASE FileRead(Temp, "iconv") /\ pc = "ic_read" /\ IconvRead
             /\ ~(FileReadFails(Temp, "iconv") /\ Jump("ic_free", "IOFAIL"))
    <3>1. /\ StoreOK' /\ OthersKept(Temp) /\ BuffersKept("iconv")
          /\ mem'["iconv"].pos = mem["iconv"].pos + Len(Fetched(Temp, "iconv"))
          /\ Len(Fetched(Temp, "iconv")) \in Nat
      BY <1>0, <2>1, ReadStore, FetchedFacts DEF Buffers
    <3>2. /\ h # Std => obj'[h] = obj[h]
          /\ mem'["main"] = mem["main"]
      BY <1>0, <3>1 DEF OthersKept, BuffersKept, Buffers
    <3>3. /\ used' = 0 /\ UNCHANGED <<orig, fsize, call>>
          /\ \/ mem'["iconv"].pos = -1 /\ pc' \in {"ic_free", "stopped"}
             \/ mem'["iconv"].pos # -1 /\ pc' \in {"ic_conv", "stopped"}
      BY <2>1 DEF IconvRead, Goto
    <3>4. mem'["iconv"].pos >= -1 /\ mem'["iconv"].pos \in Int
      BY <1>0, <3>1 DEF c
    <3> QED BY <1>a, <2>1, <3>1, <3>2, <3>3, <3>4 DEF BufferInv, PlacesOK, ReturnPoints, m, Tight
  <2>2. CASE FileReadFails(Temp, "iconv") /\ Jump("ic_free", "IOFAIL")
    BY <2>2, ReadFailsStore, Onward DEF Buffers
  <2> QED BY <1>8, <2>1, <2>2 DEF IconvRead
<1>9. CASE IconvCharacter
  <2> DEFINE n == CharAt(c.data, used + 1)
             image == Image(c.data[used + 1])
  <2>1. /\ pc = "ic_conv" /\ used < c.pos /\ n > 0
        /\ UNCHANGED <<obj, open, linked, status>>
        /\ UNCHANGED <<setup, orig, err, cur, req, todo, fsize, call, eof, ok, done>>
    BY <1>9 DEF IconvCharacter, c
  <2>2. used + 1 \in 1 .. Len(c.data) /\ c.data[used + 1] \in Byte
    BY <1>0, <1>a, <2>1, TextLen
  <2>3. n \in {1, 2} /\ used + n \in Nat /\ used + n <= c.pos
    <3>1. n \in {-1, 0, 1, 2} /\ (n = 2 => used + 1 < Len(c.data))
      BY <1>0, <2>2, CharFacts
    <3> HIDE DEF n
    <3> QED BY <1>0, <1>a, <2>1, <2>2, <3>1
  <2>4. image \in Text
    BY <2>2, ImageType
  <2>5. CASE /\ mem' = [mem EXCEPT !["main"] = [data |-> m.data \o image, pos |-> m.pos + Len(image)]]
             /\ m.pos + Len(image) <= BufSize
             /\ used' = used + n /\ UNCHANGED pc
    <3> HIDE DEF n, image
    <3> DEFINE v == [data |-> m.data \o image, pos |-> m.pos + Len(image)]
    <3>0. m.pos >= 0 /\ m.pos \in Int /\ Len(image) \in Nat
      BY <1>0, <1>a, <2>1, <2>4, TextLen DEF ReturnPoints
    <3>1. v \in Buffer /\ v.pos \in -1 .. Size("main")
          /\ Len(v.data) = IF v.pos = -1 THEN 0 ELSE v.pos
      BY <1>0, <2>4, <2>5, <3>0, TextConcat DEF Buffer, Size
    <3>2. StoreOK' /\ BuffersKept("main") /\ mem'["main"] = v
      <4> HIDE DEF v
      <4>1. mem' = [mem EXCEPT !["main"] = v] /\ "main" \in Buffers
        BY <2>5 DEF Buffers, v
      <4>2. BuffersOK' /\ BuffersKept("main") /\ mem'["main"] = v
        BY <3>1, <4>1, SetBuffer
      <4> QED BY <2>1, <4>2, SameObjects DEF StoreOK
    <3>3. mem'["iconv"] = c /\ mem'["main"].pos # -1
      BY <3>0, <3>2 DEF BuffersKept, Buffers, c
    <3> HIDE DEF v
    <3> QED BY <1>a, <2>1, <2>3, <2>5, <3>2, <3>3 DEF BufferInv, PlacesOK, Tight
  <2>6. CASE Goto("ic_full") /\ UNCHANGED <<mem, used>>
    <3>1. StoreOK' /\ pc' \in {"ic_full", "stopped"}
      BY <2>1, <2>6, SameStore DEF Goto
    <3> QED BY <1>a, <2>1, <2>6, <3>1 DEF BufferInv, PlacesOK, ReturnPoints, m, c, Tight
  <2> QED BY <1>9, <2>5, <2>6 DEF IconvCharacter, m, c
<1>10. CASE IconvFull \/ IconvWrite
  <2>0. pc \in {"ic_full", "ic_write"}
    BY <1>10 DEF IconvFull, IconvWrite, Try
  <2>1. CASE /\ FileWrite(h, "main", m.data)
             /\ \E l \in {"ic_conv", "ic_free", "ic_read"} :
                  Jump(l, err) /\ (l = "ic_conv" => pc = "ic_full")
    <3>1. /\ StoreOK' /\ BuffersKept("main") /\ mem'["main"] = EmptyBuffer
          /\ h # Std => Tight(h)'
      BY <1>0, <1>a, <2>0, <2>1, WriteStore DEF Buffers, Tight
    <3>2. mem'["main"].pos = 0 /\ mem'["iconv"] = c
      BY <3>1, SpecialBuffers DEF BuffersKept, Buffers, c
    <3>3. /\ pc' \in {"ic_conv", "ic_free", "ic_read", "stopped"}
          /\ pc' = "ic_conv" => pc = "ic_full"
          /\ UNCHANGED <<orig, fsize, used, call>>
      BY <2>1, JumpFacts
    <3> QED BY <1>a, <2>0, <3>1, <3>2, <3>3 DEF BufferInv, PlacesOK
  <2>2. CASE FileWriteFails(h, "main", m.data) /\ Jump("ic_free", "IOFAIL")
    <3>1. StoreOK'
      BY <1>0, <1>a, <2>0, <2>2, WriteFailsStore DEF Buffers
    <3> QED BY <2>2, <3>1, Onward
  <2> QED BY <1>10, <2>1, <2>2 DEF IconvFull, IconvWrite, Try, m
<1>11. CASE IconvBlockEnd
  <2> DEFINE rest == SubSeq(c.data, used + 1, Len(c.data))
             v == [data |-> rest, pos |-> Len(rest)]
  <2>1. /\ pc = "ic_conv" /\ mem' = [mem EXCEPT !["iconv"] = v]
        /\ obj' = obj /\ Jump("ic_write", err)
    <3>1. mem' = [mem EXCEPT !["iconv"] = v]
      BY <1>11, Zenon DEF IconvBlockEnd, c
    <3> HIDE DEF v
    <3> QED BY <1>11, <3>1 DEF IconvBlockEnd
  <2>2. rest \in Text /\ Len(rest) \in Nat /\ Len(rest) <= IconvSize
    <3>1. pc = "ic_conv"
      BY <2>1
    <3>2. /\ used \in Nat /\ Len(c.data) \in Nat /\ used <= Len(c.data)
          /\ Len(c.data) <= IconvSize
      BY <1>0, <1>a, <3>1, FilebufAssumption
    <3>3. rest \in Text /\ Len(rest) = IF used < Len(c.data) THEN Len(c.data) - used ELSE 0
      BY <1>0, <3>2, TextBehind
    <3> HIDE DEF rest
    <3> QED BY <3>2, <3>3, FilebufAssumption
  <2>3. v \in Buffer /\ v.pos \in -1 .. Size("iconv")
        /\ Len(v.data) = IF v.pos = -1 THEN 0 ELSE v.pos
    <3> HIDE DEF rest
    <3> QED BY <2>2 DEF Buffer, Size
  <2>4. StoreOK' /\ BuffersKept("iconv")
    <3> HIDE DEF v
    <3>1. BuffersOK' /\ BuffersKept("iconv")
      BY <2>1, <2>3, SetBuffer DEF Buffers
    <3> QED BY <2>1, <3>1, SameObjects DEF StoreOK
  <2>5. mem'["main"] = mem["main"] /\ pc' \in {"ic_write", "stopped"}
        /\ UNCHANGED <<orig, fsize, used, call>>
    BY <2>1, <2>4, JumpFacts DEF BuffersKept, Buffers
  <2> QED BY <1>a, <2>1, <2>4, <2>5 DEF BufferInv, PlacesOK, ReturnPoints, m, Tight
<1>12. CASE IconvMalformed
  <2>1. UNCHANGED <<obj, mem>> /\ pc = "ic_conv"
        /\ \/ h = Std /\ Jump("ic_free", "IOFAIL")
           \/ h # Std /\ Jump("rc_from", err)
    BY <1>12 DEF IconvMalformed, fbvars
  <2> QED BY <1>a, <2>1, SameStore, Onward DEF m, ReturnPoints
<1>13. CASE RecoverSeekFrom
  <2>0. pc = "rc_from" /\ h # Std
    BY <1>13 DEF RecoverSeekFrom, Try, BufferInv, PlacesOK
  <2>1. CASE FileSeek(Temp, 0) /\ Jump("rc_to", err)
    <3>1. StoreOK' /\ mem' = mem
      BY <1>0, <2>1, SeekStep
    <3> QED BY <1>a, <2>0, <2>1, <3>1, Onward DEF m, ReturnPoints
  <2>2. CASE FileSeekFails(Temp) /\ Jump("ic_free", "IOFAIL")
    BY <2>2, SameStore, Onward DEF FileSeekFails
  <2> QED BY <1>13, <2>1, <2>2 DEF RecoverSeekFrom, Try
<1>14. CASE RecoverSeekTo
  <2>0. pc = "rc_to" /\ h # Std
    BY <1>14 DEF RecoverSeekTo, Try, BufferInv, PlacesOK
  <2>1. CASE FileSeek(h, 0) /\ Jump("rc_trunc", err)
    <3>1. StoreOK' /\ obj'[h].pos = 0 /\ mem' = mem
      BY <1>0, <2>0, <2>1, SeekStep
    <3>2. pc' \in {"rc_trunc", "stopped"} /\ UNCHANGED <<orig, fsize, used, call>>
      BY <2>1, JumpFacts
    <3> QED BY <1>a, <2>0, <3>1, <3>2 DEF BufferInv, PlacesOK, ReturnPoints, m
  <2>2. CASE FileSeekFails(h) /\ Jump("ic_free", "IOFAIL")
    BY <2>2, SameStore, Onward DEF FileSeekFails
  <2> QED BY <1>14, <2>1, <2>2 DEF RecoverSeekTo, Try
<1>15. CASE RecoverTruncate
  <2>0. pc = "rc_trunc" /\ h # Std
    BY <1>15 DEF RecoverTruncate, BufferInv, PlacesOK
  <2>1. CASE /\ obj' = [obj EXCEPT ![h].data = Resized(@, h, fsize)]
             /\ mem' = [mem EXCEPT !["iconv"] = EmptyBuffer]
             /\ Call(Temp, h, FALSE, "iconv", "rc_done")
    <3>1. ObjectsOK' /\ obj'[h].pos = 0 /\ Len(obj'[h].data) = fsize
      BY <1>0, <1>a, <2>0, <2>1, TruncateStore
    <3>2. BuffersOK' /\ BuffersKept("iconv")
      BY <2>1, SetBuffer, SpecialBuffers DEF Buffers
    <3>3. mem'["main"] = mem["main"]
      BY <3>2 DEF BuffersKept, Buffers
    <3>4. /\ pc' \in {"copy_write", "stopped"}
          /\ call'.from = Temp /\ call'.to = h /\ call'.ret = "rc_done"
          /\ UNCHANGED <<orig, fsize, used>>
      BY <2>1, CallFacts
    <3> QED
      BY <1>0, <1>a, <2>0, <3>1, <3>2, <3>3, <3>4
         DEF BufferInv, PlacesOK, StoreOK, ReturnPoints, m, Tight
  <2>2. CASE FileTruncateFails(h) /\ Jump("ic_free", "IOFAIL")
    BY <2>2, SameStore, Onward DEF FileTruncateFails
  <2> QED BY <1>15, <2>1, <2>2 DEF RecoverTruncate
<1>16. CASE RecoverDone
  <2>1. UNCHANGED <<obj, mem>> /\ pc = "rc_done"
        /\ \/ err = "OK" /\ Jump("ic_free", "MALFORM")
           \/ Jump("ic_free", "IOFAIL")
    BY <1>16 DEF RecoverDone, fbvars
  <2>2. err = "OK" => mem["main"].pos # -1
    BY <2>1 DEF BufferInv, PlacesOK
  <2> QED BY <2>1, <2>2, SameStore, Onward
<1>17. CASE IconvFree
  <2>1. StoreOK' /\ mem' = mem /\ Jump("returned", err) /\ pc = "ic_free"
    BY <1>17, TempStore DEF IconvFree, FreeTemp
  <2>2. err # "IOFAIL" => mem["main"].pos # -1
    BY <2>1 DEF BufferInv, PlacesOK
  <2> QED BY <2>1, <2>2, Onward
<1> QED
  BY <1>1, <1>2, <1>3, <1>4, <1>5, <1>6, <1>7, <1>8, <1>9, <1>10, <1>11, <1>12,
     <1>13, <1>14, <1>15, <1>16, <1>17 DEF IconvStep, Recover

(* Two streams at once: librecode reads one and writes the other. *)
LEMMA TwoStreams ==
  ASSUME StoreOK, NEW x \in Objects, NEW y \in Objects, x # y,
         x \notin {"stdout", Temp}, NEW p \in Nat, NEW v \in Stream,
         v.pos <= Len(v.data),
         \/ obj' = [obj EXCEPT ![x].pos = p, ![y] = v]
         \/ obj' = [obj EXCEPT ![y] = v, ![x].pos = p]
  PROVE  /\ ObjectsOK' /\ obj'[y] = v
         /\ obj'[x].pos = p /\ obj'[x].data = obj[x].data
         /\ \A o \in Objects \ {x, y} : obj'[o] = obj[o]
<1>1. /\ obj' \in [Objects -> Stream] /\ obj'[y] = v
      /\ obj'[x].pos = p /\ obj'[x].data = obj[x].data
      /\ \A o \in Objects \ {x, y} : obj'[o] = obj[o]
  BY SMTT(30) DEF StoreOK, ObjectsOK, Stream
<1>2. \A q \in {"stdout", Temp} : Tight(q)'
  BY <1>1 DEF StoreOK, ObjectsOK, Tight, Objects
<1> QED BY <1>1, <1>2 DEF ObjectsOK

LEMMA WholeStream ==
  ASSUME NEW s \in Text
  PROVE  /\ [data |-> s, pos |-> Len(s)] \in Stream
         /\ [data |-> s, pos |-> Len(s)].pos <= Len([data |-> s, pos |-> Len(s)].data)
BY TextLen DEF Stream

(* What is known of the file and the buffers at a point of process_file(). *)
LEMMA AtPlace ==
  ASSUME StreamInv, BufferInv, pc \notin {"main", "stopped"}
  PROVE  /\ StoreOK /\ h \in Handles /\ Temp \in Objects
         /\ mem["main"].data \in Text
         /\ h # Std => h \in Files /\ h \in Objects
                       /\ h \notin {"stdin", "stdout", Temp}
         /\ obj[h].pos \in Nat \/ h = Std
         /\ Sink(h) \in Objects /\ Source(h) \in Objects
         /\ \A o \in Objects : /\ obj[o].data \in Text /\ Len(obj[o].data) \in Nat
                               /\ obj[o].pos \in Nat
         /\ pc \notin ReturnPoints => mem["main"].pos # -1 /\ err # "IOFAIL"
         /\ orig \in [Files \cup {Std} -> Text] /\ fsize \in Nat /\ used \in Nat
         /\ pc \in NamedOnly => h # Std
         /\ h # Std /\ pc \in Rewound => obj[h].pos = 0
<1>1. /\ StoreOK /\ orig \in [Files \cup {Std} -> Text] /\ fsize \in Nat /\ used \in Nat
      /\ pc \in NamedOnly => h # Std
      /\ h # Std /\ pc \in Rewound => obj[h].pos = 0
  BY DEF BufferInv, PlacesOK
<1>2. /\ h \in Handles /\ Temp \in Objects /\ Sink(h) \in Objects /\ Source(h) \in Objects
  BY AtWork, Places DEF Objects
<1>3. \A o \in Objects : /\ obj[o].data \in Text /\ Len(obj[o].data) \in Nat
                         /\ obj[o].pos \in Nat
  BY <1>1, StoreTypes
<1> QED BY <1>1, <1>2, <1>3, AtWork DEF MainSize

(* What is not read yet of a file. *)
LEMMA RestType ==
  ASSUME StoreOK, NEW o \in Objects
  PROVE  SubSeq(obj[o].data, obj[o].pos + 1, Len(obj[o].data)) \in Text
<1>1. obj[o].data \in Text /\ obj[o].pos \in Nat /\ Len(obj[o].data) \in Int
  BY StoreTypes
<1> QED BY <1>1, TextBehind

(* A task of the stdin branch of librecode. *)
LEMMA TaskStore ==
  ASSUME StoreOK, NEW s \in Text, NEW p \in Nat, RecodeToStdout(s, p)
  PROVE  StoreOK' /\ mem' = mem /\ h' = h
         /\ UNCHANGED <<setup, orig, cur, req, todo, fsize, call, used>>
<1>1. PICK out \in Prefixes(Images(s)) :
        obj' = [obj EXCEPT !["stdout"] = Overwritten(@, out), !["stdin"].pos = p]
  <2>1. Images(s) \in Text
    BY ImagesType
  <2>2. Images(s) \in Prefixes(Images(s))
    BY <2>1, TextFull, TextLen DEF Prefixes
  <2> QED BY <2>2 DEF RecodeToStdout
<1>2. out \in Text
  BY ImagesType, PrefixType
<1>3. /\ "stdin" \in Objects /\ "stdout" \in Objects /\ "stdin" \notin {"stdout", Temp}
      /\ obj["stdout"] \in Stream /\ obj["stdout"].pos <= Len(obj["stdout"].data)
  BY DEF StoreOK, ObjectsOK, Tight, Objects, Temp
<1> DEFINE v == Overwritten(obj["stdout"], out)
<1>4. v \in Stream /\ v.pos <= Len(v.data)
  <2>1. v \in Stream /\ v.pos = obj["stdout"].pos + Len(out)
        /\ Len(v.data) = IF v.pos >= Len(obj["stdout"].data) THEN v.pos
                         ELSE Len(obj["stdout"].data)
    BY <1>2, <1>3, OverwrittenFacts
  <2>2. v.pos \in Nat /\ Len(obj["stdout"].data) \in Nat
    BY <1>3, <2>1, StoreTypes DEF Stream
  <2> HIDE DEF v
  <2> QED BY <2>1, <2>2
<1>5. obj' = [obj EXCEPT !["stdout"] = v, !["stdin"].pos = p]
  BY <1>1
<1> HIDE DEF v
<1>6. ObjectsOK'
  BY <1>3, <1>4, <1>5, TwoStreams
<1>7. /\ mem' = mem /\ h' = h
      /\ UNCHANGED <<setup, orig, cur, req, todo, fsize, call, used>>
  BY DEF RecodeToStdout, h
<1> QED BY <1>6, <1>7, SameBuffers DEF StoreOK

LEMMA BufferRecode ==
  ASSUME StreamInv, BufferInv, RecodeStep PROVE BufferInv'
<1>0. pc \notin {"main", "stopped"} /\ h' = h /\ StoreOK
  BY DEF RecodeStep, RecodeStart, RecodeNoLibrary, RecodeTemp, RecodeSeek,
         RecodeTask, RecodeRewindFile, RecodeRewindTemp, RecodeTruncate,
         RecodeFree, RecodeBuffer, RecodeRest, RecodeSystemError, RecodeToStdout,
         FreeTemp, Try, Jump, Call, ctlrest, h, Stop, BufferInv
<1> USE <1>0, AtPlace
<1>1. CASE RecodeStart
  <2>0. pc = "recode" /\ pc \notin ReturnPoints
    BY <1>1 DEF RecodeStart, ReturnPoints
  <2>1. CASE UNCHANGED fbvars /\ (Jump("returned", "CANNOT") \/ Jump("rs_first", err))
    BY <2>0, <2>1, SameStore, Onward DEF fbvars, Seeked, Rewound, NamedOnly
  <2>2. CASE /\ obj' = [obj EXCEPT ![h].pos = 0] /\ h # Std
             /\ mem' = [mem EXCEPT !["main"] = EmptyBuffer]
             /\ Jump("rd_temp", err)
    <3>1. ObjectsOK'
      BY <2>2, SeekStore
    <3>2. BuffersOK' /\ mem'["main"].pos = 0
      BY <2>2, SetBuffer, SpecialBuffers DEF Buffers
    <3> QED BY <2>2, <3>1, <3>2, Onward DEF StoreOK, Seeked, Rewound
  <2>3. CASE FileSeekFails(h) /\ Jump("returned", "IOFAIL")
    BY <2>3, SameStore, Onward DEF FileSeekFails, Seeked, Rewound, NamedOnly
  <2> QED BY <1>1, <2>1, <2>2, <2>3 DEF RecodeStart
<1>2. CASE RecodeNoLibrary \/ RecodeSystemError
  <2>1. UNCHANGED <<obj, mem>> /\ pc \notin ReturnPoints
        /\ (Jump("returned", "LIBCOM") \/ Jump("returned", "IOFAIL"))
    BY <1>2 DEF RecodeNoLibrary, RecodeSystemError, fbvars, ReturnPoints
  <2> QED BY <2>1, SameStore, Onward DEF Seeked, Rewound, NamedOnly
<1>3. CASE RecodeTemp
  <2>0. pc = "rd_temp" /\ h # Std /\ mem["main"].pos # -1
    BY <1>3 DEF RecodeTemp, Try, NamedOnly, ReturnPoints
  <2>1. CASE FileTemporary(TRUE) /\ Jump("rd_seek", err)
    <3>1. StoreOK' /\ mem' = mem
      BY <2>1, TempStore DEF FileTemporary
    <3> QED BY <2>0, <2>1, <3>1, Onward DEF Seeked, Rewound
  <2>2. CASE FileTemporaryFails /\ Jump("rd_free", "IOFAIL")
    BY <2>0, <2>2, SameStore, Onward DEF FileTemporaryFails, fbvars, Seeked, Rewound
  <2>3. CASE FileTemporaryExits /\ Stop
    BY <2>3, Stopped DEF FileTemporaryExits, Stop
  <2> QED BY <1>3, <2>1, <2>2, <2>3 DEF RecodeTemp, Try
<1>4. CASE RecodeSeek \/ RecodeRewindFile
  <2>0. pc \in {"rd_seek", "rd_file"} /\ h # Std /\ mem["main"].pos # -1
    BY <1>4 DEF RecodeSeek, RecodeRewindFile, Try, NamedOnly, ReturnPoints
  <2>1. CASE FileSeek(h, 0) /\ Jump("rd_task", err)
    <3>1. StoreOK' /\ mem' = mem
      BY <2>0, <2>1, SeekStep
    <3> QED BY <2>0, <2>1, <3>1, Onward DEF Seeked, Rewound
  <2>2. CASE FileSeek(h, 0) /\ Jump("rd_rewind", err)
    <3>1. StoreOK' /\ mem' = mem /\ obj'[h].pos = 0
      BY <2>0, <2>2, SeekStep
    <3>2. /\ pc' \in {"rd_rewind", "stopped"} /\ UNCHANGED <<orig, fsize, used, call>>
      BY <2>2, JumpFacts
    <3> QED
      BY <2>0, <3>1, <3>2 DEF BufferInv, PlacesOK, Seeked, MainSize
  <2>3. CASE FileSeekFails(h) /\ Jump("rd_free", "IOFAIL")
    BY <2>0, <2>3, SameStore, Onward DEF FileSeekFails, Seeked, Rewound
  <2> QED BY <1>4, <2>1, <2>2, <2>3 DEF RecodeSeek, RecodeRewindFile, Try
<1>5. CASE RecodeTask
  <2> DEFINE s == SubSeq(obj[h].data, obj[h].pos + 1, Len(obj[h].data))
  <2>0. pc = "rd_task" /\ h # Std /\ mem["main"].pos # -1 /\ s \in Text
    BY <1>5, RestType DEF RecodeTask, NamedOnly, ReturnPoints
  <2>1. PICK part \in Prefixes(Images(s)) :
          /\ obj' = [obj EXCEPT ![h].pos = Len(obj[h].data),
                                ![Temp] = [data |-> part, pos |-> Len(part)]]
          /\ Jump("rd_file", err) \/ Jump("rd_free", "IOFAIL")
    <3>1. Images(s) \in Prefixes(Images(s))
      BY <2>0, ImagesType, TextFull, TextLen DEF Prefixes
    <3> QED BY <1>5, <3>1 DEF RecodeTask
  <2>2. part \in Text
    BY <2>0, ImagesType, PrefixType
  <2>3. ObjectsOK'
    <3> DEFINE v == [data |-> part, pos |-> Len(part)]
    <3>1. v \in Stream /\ v.pos <= Len(v.data)
      BY <2>2, WholeStream
    <3>2. obj' = [obj EXCEPT ![h].pos = Len(obj[h].data), ![Temp] = v]
      BY <2>1
    <3>3. /\ h \in Objects /\ Temp \in Objects /\ h # Temp /\ h \notin {"stdout", Temp}
          /\ Len(obj[h].data) \in Nat
      BY <2>0
    <3> HIDE DEF v
    <3> QED BY <3>1, <3>2, <3>3, TwoStreams
  <2>4. StoreOK' /\ mem' = mem
    BY <1>5, <2>3, SameBuffers DEF RecodeTask, StoreOK
  <2> QED BY <2>0, <2>1, <2>4, Onward DEF Seeked, Rewound
<1>6. CASE RecodeRewindTemp
  <2>0. pc = "rd_rewind" /\ h # Std /\ mem["main"].pos # -1 /\ obj[h].pos = 0
    BY <1>6 DEF RecodeRewindTemp, Try, NamedOnly, ReturnPoints, Rewound
  <2>1. CASE FileSeek(Temp, 0) /\ Jump("rd_trunc", err)
    <3>1. StoreOK' /\ mem' = mem /\ obj'[h] = obj[h]
      BY <2>0, <2>1, SeekStep DEF OthersKept
    <3>2. /\ pc' \in {"rd_trunc", "stopped"} /\ UNCHANGED <<orig, fsize, used, call>>
      BY <2>1, JumpFacts
    <3> QED
      BY <2>0, <3>1, <3>2 DEF BufferInv, PlacesOK, Seeked, MainSize
  <2>2. CASE FileSeekFails(Temp) /\ Jump("rd_free", "IOFAIL")
    BY <2>0, <2>2, SameStore, Onward DEF FileSeekFails, Seeked, Rewound
  <2> QED BY <1>6, <2>1, <2>2 DEF RecodeRewindTemp, Try
<1>7. CASE RecodeTruncate
  <2>0. pc = "rd_trunc" /\ h # Std /\ mem["main"].pos # -1 /\ obj[h].pos = 0
    BY <1>7 DEF RecodeTruncate, NamedOnly, ReturnPoints, Rewound
  <2>1. CASE FileTruncate(h, 0) /\ Call(Temp, h, FALSE, "main", "rd_free")
    <3>1. ObjectsOK' /\ obj'[h].pos = 0 /\ Len(obj'[h].data) = 0
      BY <2>0, <2>1, TruncateStore DEF FileTruncate
    <3>2. BuffersOK' /\ mem' = mem
      BY <2>1, SameBuffers DEF FileTruncate
    <3>3. /\ pc' \in {"copy_write", "stopped"}
          /\ call'.from = Temp /\ call'.to = h /\ call'.ret = "rd_free"
          /\ UNCHANGED <<orig, fsize, used>>
      BY <2>1, CallFacts
    <3> QED
      BY <2>0, <3>1, <3>2, <3>3 DEF BufferInv, PlacesOK, StoreOK, Seeked, Rewound, NamedOnly, MainSize, Tight
  <2>2. CASE FileTruncateFails(h) /\ Jump("rd_free", "IOFAIL")
    BY <2>0, <2>2, SameStore, Onward DEF FileTruncateFails, Seeked, Rewound
  <2> QED BY <1>7, <2>1, <2>2 DEF RecodeTruncate
<1>8. CASE RecodeFree
  <2>1. StoreOK' /\ mem' = mem /\ Jump("returned", err) /\ pc = "rd_free"
    BY <1>8, TempStore DEF RecodeFree, FreeTemp
  <2>2. err # "IOFAIL" => mem["main"].pos # -1
    BY <2>1 DEF BufferInv, PlacesOK, MainSize, BetweenFiles
  <2> QED BY <2>1, <2>2, Onward DEF Seeked, Rewound, NamedOnly
<1>9. CASE RecodeBuffer \/ RecodeRest
  <2>0. pc \in {"rs_first", "rs_rest"} /\ mem["main"].pos # -1
    BY <1>9 DEF RecodeBuffer, RecodeRest, ReturnPoints
  <2>1. \E s \in Text : \E p \in Nat : RecodeToStdout(s, p)
    <3>1. CASE RecodeBuffer
      <4>1. mem["main"].data \in Text /\ obj["stdin"].pos \in Nat
        BY DEF Objects
      <4> QED BY <3>1, <4>1 DEF RecodeBuffer
    <3>2. CASE RecodeRest
      <4>1. "stdin" \in Objects
        BY DEF Objects
      <4>2. SubSeq(obj["stdin"].data, obj["stdin"].pos + 1, Len(obj["stdin"].data)) \in Text
            /\ Len(obj["stdin"].data) \in Nat
        BY <4>1, RestType
      <4> QED BY <3>2, <4>2 DEF RecodeRest
    <3> QED BY <1>9, <3>1, <3>2
  <2>2. StoreOK' /\ mem' = mem /\ UNCHANGED <<orig, fsize, used, call>>
    BY <2>1, TaskStore
  <2>3. pc' \in {"rs_rest", "returned", "stopped"}
    BY <1>9 DEF RecodeBuffer, RecodeRest, Goto
  <2> QED
    BY <2>0, <2>2, <2>3 DEF BufferInv, PlacesOK, Seeked, Rewound, NamedOnly, MainSize
<1> QED
  BY <1>1, <1>2, <1>3, <1>4, <1>5, <1>6, <1>7, <1>8, <1>9 DEF RecodeStep

LEMMA BufferExtern ==
  ASSUME StreamInv, BufferInv, ExternStep PROVE BufferInv'
<1>0. pc \notin {"main", "stopped"} /\ h' = h /\ StoreOK
  BY DEF ExternStep, ExternStart, ExternTemp, ExternSaved, ExternRun,
         ExternDies, ExternFree, Jump, Call, ctlrest, h, Stop, BufferInv
<1> USE <1>0, AtPlace
<1> USE DEF Seeked, Rewound, NamedOnly
<1>1. CASE ExternStart
  <2>1. UNCHANGED <<obj, mem>> /\ mem["main"].pos # -1
        /\ \/ Jump("returned", "CANNOT")
           \/ Jump("ex_temp", err) \/ Jump("ex_run", err)
    BY <1>1 DEF ExternStart, fbvars, ReturnPoints
  <2> QED BY <2>1, SameStore, Onward
<1>2. CASE ExternTemp
  <2>0. pc = "ex_temp" /\ mem["main"].pos # -1
    BY <1>2 DEF ExternTemp, ReturnPoints
  <2>1. CASE FileTemporary(FALSE) /\ Call(h, Temp, FALSE, "main", "ex_saved")
    <3>1. StoreOK' /\ mem' = mem
      BY <2>1, TempStore DEF FileTemporary
    <3>2. Tight(Temp)'
      BY <3>1 DEF StoreOK, ObjectsOK
    <3>3. /\ pc' \in {"copy_write", "stopped"}
          /\ call'.from = h /\ call'.to = Temp /\ call'.ret = "ex_saved"
          /\ UNCHANGED <<orig, fsize, used>>
      BY <2>1, CallFacts
    <3>4. h # Temp
      BY DEF Std, Temp
    <3> QED
      BY <2>0, <3>1, <3>2, <3>3, <3>4 DEF BufferInv, PlacesOK, MainSize
  <2>2. CASE FileTemporaryFails /\ Jump("returned", "IOFAIL")
    BY <2>2, SameStore, Onward DEF FileTemporaryFails, fbvars
  <2>3. CASE FileTemporaryExits /\ Stop
    BY <2>3, Stopped DEF FileTemporaryExits, Stop
  <2> QED BY <1>2, <2>1, <2>2, <2>3 DEF ExternTemp
<1>3. CASE ExternSaved
  <2>1. UNCHANGED <<obj, mem>> /\ (Jump("ex_run", err) \/ Jump("ex_free", err))
        /\ pc = "ex_saved"
    BY <1>3 DEF ExternSaved, fbvars
  <2>2. err # "IOFAIL" => mem["main"].pos # -1
    BY <2>1 DEF BufferInv, PlacesOK, MainSize, BetweenFiles
  <2> QED BY <2>1, <2>2, SameStore, Onward
<1>4. CASE ExternRun
  <2> DEFINE in == IF h = Std THEN obj[Temp].data ELSE obj[h].data
  <2>0. pc = "ex_run" /\ mem["main"].pos # -1 /\ mem' = mem /\ in \in Text
        /\ Images(in) \in Text
    BY <1>4, ImagesType DEF ExternRun, ReturnPoints
  <2>1. \/ obj' = obj
        \/ \E part \in Prefixes(Images(in)) :
             obj' = [obj EXCEPT ![Sink(h)] =
                  IF h = Std THEN Overwritten(@, part)
                             ELSE [data |-> part, pos |-> @.pos]]
    <3>1. Images(in) \in Prefixes(Images(in))
      BY <2>0, ImagesType, TextFull, TextLen DEF Prefixes
    <3> QED BY <1>4, <3>1 DEF ExternRun
  <2>2. \E l \in {"ex_free", "returned"} : \E e : Jump(l, e)
    BY <1>4 DEF ExternRun
  <2>3. CASE obj' = obj
    BY <2>0, <2>2, <2>3, SameStore, Onward
  <2>4. CASE obj' # obj
    <3>1. PICK part \in Prefixes(Images(in)) :
             obj' = [obj EXCEPT ![Sink(h)] =
                  IF h = Std THEN Overwritten(@, part)
                             ELSE [data |-> part, pos |-> @.pos]]
      BY <2>1, <2>4
    <3>2. part \in Text
      BY <2>0, PrefixType
    <3>3. CASE h = Std
      <4>1. obj' = [obj EXCEPT !["stdout"] = Overwritten(@, part)]
        BY <3>1, <3>3 DEF Sink
      <4>2. "stdout" \in Objects /\ Tight("stdout")
        BY DEF StoreOK, ObjectsOK, Objects
      <4> QED BY <3>2, <4>1, <4>2, PutStore
              , <2>0, <2>2, SameBuffers, Onward DEF StoreOK
    <3>4. CASE h # Std
      <4> DEFINE v == [data |-> part, pos |-> obj[h].pos]
      <4>1. obj' = [obj EXCEPT ![h] = v] /\ v \in Stream
        BY <3>1, <3>2, <3>4 DEF Sink, Stream
      <4>2. h \in Objects /\ h \notin {"stdout", Temp}
        BY <3>4
      <4> HIDE DEF v
      <4>3. ObjectsOK'
        BY <4>1, <4>2, SetObject
      <4> QED BY <4>3, <2>0, <2>2, SameBuffers, Onward DEF StoreOK
    <3> QED BY <3>3, <3>4
  <2> QED BY <2>3, <2>4
<1>5. CASE ExternDies
  BY <1>5, Stopped DEF ExternDies, Stop
<1>6. CASE ExternFree
  <2>1. StoreOK' /\ mem' = mem /\ Jump("returned", err) /\ pc = "ex_free"
    BY <1>6, TempStore DEF ExternFree
  <2>2. err # "IOFAIL" => mem["main"].pos # -1
    BY <2>1 DEF BufferInv, PlacesOK, MainSize, BetweenFiles
  <2> QED BY <2>1, <2>2, Onward
<1> QED BY <1>1, <1>2, <1>3, <1>4, <1>5, <1>6 DEF ExternStep
-----------------------------------------------------------------------------
LEMMA StepBuffer == StreamInv /\ BufferInv /\ [Next]_vars => BufferInv'
<1> SUFFICES ASSUME StreamInv, BufferInv, [Next]_vars PROVE BufferInv'
  OBVIOUS
<1>1. CASE Next
  BY <1>1, BufferMain, BufferChoose, BufferCopy, BufferBuiltin, BufferIconv,
     BufferRecode, BufferExtern DEF Next
<1>2. CASE UNCHANGED vars
  <2>1. StoreOK' /\ h' = h /\ UNCHANGED <<orig, pc, err, fsize, call, used, obj, mem>>
    BY <1>2, SameStore DEF vars, fbvars, ctlvars, BufferInv, h
  <2> QED BY <2>1 DEF BufferInv, PlacesOK, Tight, MainSize
<1> QED BY <1>1, <1>2

(* Wherever the program is, its buffers and streams are as BufferInv says.  *)
THEOREM BufferInvariant == Spec => [](StreamInv /\ BufferInv)
<1>1. Init => StreamInv /\ BufferInv
  BY InitStream, InitBuffer
<1>2. StreamInv /\ BufferInv /\ [Next]_vars => (StreamInv /\ BufferInv)'
  BY StepStream, StepBuffer
<1> QED BY <1>1, <1>2, PTL DEF Spec

LEMMA InBounds == StreamInv /\ BufferInv => BuffersInBounds
<1> SUFFICES ASSUME StreamInv, BufferInv PROVE BuffersInBounds
  OBVIOUS
<1>1. \A b \in Buffers :
        /\ mem[b].pos \in -1 .. Size(b)
        /\ Len(mem[b].data) = IF mem[b].pos = -1 THEN 0 ELSE mem[b].pos
  BY DEF BufferInv, StoreOK, BuffersOK
<1>2. pc \in {"ic_conv", "ic_full"} => used <= mem["iconv"].pos
  BY DEF BufferInv, PlacesOK
<1>3. pc \in {"bi_write", "ic_full", "ic_write"}
        => obj[Sink(h)].pos <= Len(obj[Sink(h)].data)
  BY DEF BufferInv, PlacesOK, StoreOK, ObjectsOK, Seeked, Tight, Sink
<1>4. pc = "copy_write"
        => obj[Sink(call.to)].pos <= Len(obj[Sink(call.to)].data)
  BY AtCopy DEF Tight
<1> QED BY <1>1, <1>2, <1>3, <1>4 DEF BuffersInBounds

(* No buffer is ever filled beyond its size, iconv() never consumes more    *)
(* than was read, and no write starts behind the end of its file, whatever  *)
(* fails and whatever the sizes: file_read() and file_write()               *)
(* (src/filebuf.c), the loops of convert_builtin(), copy_and_convert()      *)
(* (src/convert.c) and convert_iconv() (src/convert_iconv.c).               *)
THEOREM BuffersStayInBounds == Spec => []BuffersInBounds
BY BufferInvariant, InBounds, PTL
=============================================================================
