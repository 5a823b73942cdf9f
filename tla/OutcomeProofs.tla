---------------------------- MODULE OutcomeProofs ---------------------------
(* Proofs about what enca -x tells its user: the exit code, the files that  *)
(* survive, what standard output may hold, and the promise of Outcome.      *)
EXTENDS ContentProofs

Reached == StreamInv /\ BufferInv /\ PathInv /\ ContentInv

(***************************************************************************)
(* Orderly command lines with the converters that run in the process; with  *)
(* standard input among the files, librecode (which forgets the failure of  *)
(* its first task) is not used and the copy of a refused input works.       *)
(***************************************************************************)
InProcess == Orderly /\ ~Listed("extern")
CopyTold ==
  UsesStd => ~Listed("recode") /\ faults \cap {"read", "write"} = {}
(* Lists of different named files, no external converter. *)
NamedFiles == Distinct /\ ~UsesStd /\ ~Listed("extern")

LEMMA NamedAreOrderly == NamedFiles => InProcess /\ CopyTold
BY DEF NamedFiles, InProcess, CopyTold, Orderly, ExternLast, Listed

(* The names of the converters come from the list. *)
LEMMA HeadListed ==
  ASSUME StreamInv, PathInv, todo # <<>> PROVE Listed(Head(todo))
<1>1. todo \in Seq(Converters)
  BY DEF StreamInv, TypeOK
<1>2. 1 \in DOMAIN todo /\ Head(todo) = todo[1]
  BY <1>1
<1> QED BY <1>2 DEF PathInv, TodoOK

(* The reports and the files they are about. *)
LEMMA Reports ==
  ASSUME StreamInv, PathInv
  PROVE  /\ DOMAIN done = 1 .. cur - 1 /\ Len(done) = cur - 1
         /\ cur \in 1 .. Len(setup.args) + 1 /\ Len(setup.args) \in Nat
         /\ DOMAIN setup.args = 1 .. Len(setup.args)
         /\ \A i \in DOMAIN setup.args : setup.args[i] \in Files \cup {Std}
         /\ \A i \in DOMAIN done : done[i].code \in ExitCodes
                                   /\ done[i].by \in Converters \cup {"none"}
<1>1. setup.args \in Seq(Files \cup {Std})
  BY ConvertAssumption DEF StreamInv, TypeOK, Setups
<1> DEFINE D == [code : ExitCodes, by : Converters \cup {"none"}]
<1>2. done \in Seq(D) /\ Len(done) = cur - 1
  BY DEF PathInv, CountsOK
<1>3. cur \in 1 .. Len(setup.args) + 1
  BY DEF StreamInv, TypeOK
<1>4. /\ DOMAIN setup.args = 1 .. Len(setup.args) /\ Len(setup.args) \in Nat
      /\ \A i \in DOMAIN setup.args : setup.args[i] \in Files \cup {Std}
  BY <1>1
<1>5. \A d \in D : d.code \in ExitCodes /\ d.by \in Converters \cup {"none"}
  OBVIOUS
<1> HIDE DEF D
<1>6. DOMAIN done = 1 .. Len(done) /\ \A i \in DOMAIN done : done[i] \in D
  BY <1>2
<1> QED BY <1>2, <1>3, <1>4, <1>5, <1>6

(***************************************************************************)
(* The rarer errors: a conversion error is of a named file, a child that    *)
(* cannot be run of the external converter; where librecode is missing the  *)
(* file was not touched.  And a file was converted by what was asked for.   *)
(***************************************************************************)
LateInv ==
  /\ err = "MALFORM" => h # Std
  /\ err = "EXEC" => Listed("extern")
  /\ err = "LIBCOM" => pc \in {"returned", "stopped"} /\ In.data = Original
  /\ \A i \in DOMAIN done : done[i].by = "none" \/ Listed(done[i].by)

LEMMA StepErr ==
  ASSUME Next, PathInv
  PROVE  \/ err' \in {"OK", "CANNOT", "IOFAIL"}
         \/ pc \notin {"returned", "stopped"} /\ err' = err /\ h' = h
         \/ err' = "MALFORM" /\ pc = "rc_done" /\ h' = h
         \/ RecodeNoLibrary
         \/ err' = "EXEC" /\ pc = "ex_run"
<1> USE DEF ctlrest, Goto, Jump, Stop, Call, Try, h
<1>1. CASE Main
  BY <1>1 DEF Main, OpenFile, ReadSample, Analyse, FinishFile, Exit, Report
<1>2. CASE Choose
  BY <1>2 DEF Choose, TryConverter, Refuse, Returned
<1>3. CASE Copy
  BY <1>3 DEF Copy, CopyWrite, CopyRead, CopyFlushFails
<1>4. CASE BuiltinStep
  BY <1>4 DEF BuiltinStep, Builtin, BuiltinSeek, BuiltinRead, BuiltinSeekBack,
     BuiltinWrite, BuiltinSync
<1>5. CASE IconvStep
  BY <1>5 DEF IconvStep, IconvStart, IconvDies, IconvTemp, IconvSave, IconvSaved,
     IconvRewind, IconvTruncate, IconvRead, IconvReadAborts, IconvCharacter, IconvFull,
     IconvBlockEnd, IconvWrite, IconvMalformed, IconvFree, FreeTemp,
     Recover, RecoverSeekFrom, RecoverSeekTo, RecoverTruncate, RecoverDone
<1>6. CASE RecodeStep
  BY <1>6 DEF RecodeStep, RecodeStart, RecodeTemp, RecodeSeek, RecodeTask,
     RecodeRewindFile, RecodeRewindTemp, RecodeTruncate, RecodeFree, FreeTemp,
     RecodeToStdout, RecodeBuffer, RecodeRest, RecodeSystemError
<1>7. CASE ExternStep
  BY <1>7 DEF ExternStep, ExternStart, ExternTemp, ExternSaved, ExternRun, ExternDies,
     ExternFree
<1> QED BY <1>1, <1>2, <1>3, <1>4, <1>5, <1>6, <1>7 DEF Next

LEMMA StepBy ==
  ASSUME StreamInv, BufferInv, PathInv, LateInv, [Next]_vars
  PROVE  \A i \in DOMAIN done' : done'[i].by = "none" \/ Listed(done'[i].by)
<1>0. \A i \in DOMAIN done : done[i].by = "none" \/ Listed(done[i].by)
  BY DEF LateInv
<1>1. CASE done' = done
  BY <1>0, <1>1
<1>2. CASE \E code, by : /\ done' = Append(done, [code |-> code, by |-> by])
                         /\ by = "none" \/ Listed(by)
  <2>1. PICK code, by : /\ done' = Append(done, [code |-> code, by |-> by])
                        /\ by = "none" \/ Listed(by)
    BY <1>2
  <2> DEFINE d == [code |-> code, by |-> by]
  <2>2. d.by = by /\ done' = Append(done, d)
    BY <2>1
  <2> HIDE DEF d
  <2>3. /\ \A i \in DOMAIN done' : i \in DOMAIN done \/ i = Len(done) + 1
        /\ done'[Len(done) + 1] = d
        /\ \A i \in DOMAIN done : done'[i] = done[i]
    BY <2>2 DEF PathInv, CountsOK
  <2> QED BY <1>0, <2>1, <2>2, <2>3
<1>3. CASE Next /\ pc \notin {"main", "finish"}
  BY <1>1, <1>3, StepWhere DEF InFile
<1>4. CASE Next /\ pc \in {"main", "finish"}
  <2>1. OpenFile \/ FinishFile \/ Exit
    BY <1>4, StepPoints
  <2>2. By = "none" \/ Listed(By)
    BY HeadListed DEF By
  <2>3. FinishFile => \E code : Report(code, By)
    BY DEF FinishFile, By
  <2>4. ASSUME NEW code, NEW by, Report(code, by), by = "none" \/ Listed(by)
        PROVE  \A i \in DOMAIN done' : done'[i].by = "none" \/ Listed(done'[i].by)
    BY <1>1, <1>2, <2>4 DEF Report
  <2> QED BY <1>1, <2>1, <2>2, <2>3, <2>4 DEF OpenFile, Exit, Stop, Jump, ctlrest
<1> QED BY <1>1, <1>3, <1>4 DEF vars, ctlvars

LEMMA StepLate == Reached /\ LateInv /\ Orderly /\ [Next]_vars => LateInv'
<1> SUFFICES ASSUME StreamInv, BufferInv, PathInv, FileInv, LateInv, [Next]_vars
             PROVE  LateInv'
  BY DEF Reached, ContentInv
<1>1. setup' = setup
  BY SetupFixed
<1>2. \A i \in DOMAIN done' : (done[i].by = "none" \/ Listed(done[i].by))'
  BY <1>1, StepBy DEF Listed
<1>3. CASE Next
  <2>1. CASE err' \in {"OK", "CANNOT", "IOFAIL"}
    BY <1>2, <2>1 DEF LateInv
  <2>2. CASE pc \notin {"returned", "stopped"} /\ err' = err /\ h' = h
    BY <1>1, <1>2, <2>2 DEF LateInv, Listed
  <2>3. CASE err' = "MALFORM" /\ pc = "rc_done" /\ h' = h
    BY <1>2, <2>3 DEF LateInv, BufferInv, PlacesOK, NamedOnly
  <2>4. CASE RecodeNoLibrary
    <3>1. /\ err' = "LIBCOM" /\ pc' \in {"returned", "stopped"}
          /\ obj' = obj /\ h' = h /\ orig' = orig /\ pc = "recode"
      BY <2>4, JumpFacts DEF RecodeNoLibrary, fbvars
    <3>2. In.data = Original
      BY <3>1 DEF FileInv, MainOK, Untried, Sampled
    <3>3. In'.data = Original'
      BY <3>1, <3>2 DEF In, Original
    <3> QED BY <1>2, <3>1, <3>3 DEF LateInv
  <2>5. CASE err' = "EXEC" /\ pc = "ex_run"
    <3>1. Head(todo) = "extern" /\ todo # <<>>
      BY <2>5 DEF PathInv, HeadsOK, Stage, Copying, ExternPoints, StreamInv,
         BeforeConverters, BetweenFiles
    <3>2. Listed("extern")'
      BY <1>1, <3>1, HeadListed DEF Listed
    <3> QED BY <1>2, <2>5, <3>2 DEF LateInv
  <2> QED BY <1>3, <2>1, <2>2, <2>3, <2>4, <2>5, StepErr
<1>4. CASE UNCHANGED vars
  <2>1. UNCHANGED <<h, In, Original, err, pc>>
    BY <1>4 DEF vars, fbvars, ctlvars, h, In, Original
  <2> QED BY <1>1, <1>2, <2>1 DEF LateInv, Listed
<1> QED BY <1>3, <1>4

Told == Orderly => LateInv
LEMMA InitTold == Init => Told
BY DEF Init, Told, LateInv

LEMMA OrderlyBefore == ASSUME [Next]_vars, Orderly' PROVE Orderly
BY SetupFixed DEF Orderly, Distinct, ExternLast, UsesStd, faults

LEMMA StepTold == Reached /\ Told /\ [Next]_vars => Told'
BY OrderlyBefore, StepLate DEF Told

LEMMA StartReached == Init => Reached /\ Told
BY InitStream, InitBuffer, InitPath, InitContent, InitTold DEF Reached

LEMMA StepReached == Reached /\ Told /\ [Next]_vars => (Reached /\ Told)'
BY StepStream, StepBuffer, StepPath, StepContent, StepTold DEF Reached

LEMMA EverReached == Spec => [](Reached /\ Told)
BY StartReached, StepReached, PTL DEF Spec

(* Standard input that no converter took, when a read or a write may fail.  *)
CopyMayFail(i) ==
  setup.args[i] = Std /\ done[i].code = "failure" /\ faults \cap {"read", "write"} # {}
(* Exit codes 0 and 1 tell the truth about each file, but for that case.    *)
ToldOrRefused ==
  status \in {"success", "failure"} =>
    \A i \in DOMAIN done :
      IF done[i].code = "success" THEN Converted(i)
      ELSE Untouched(i) \/ CopyMayFail(i)
(* The command lines on which librecode does not get standard input. *)
RecodeNamed == UsesStd => ~Listed("recode")

LEMMA Truth ==
  Reached /\ Told /\ InProcess /\ RecodeNamed => ToldOrRefused
<1> SUFFICES ASSUME Reached, Told, InProcess, RecodeNamed, status \in {"success", "failure"},
                    NEW i \in DOMAIN done
             PROVE  IF done[i].code = "success" THEN Converted(i)
                    ELSE Untouched(i) \/ CopyMayFail(i)
  BY DEF ToldOrRefused
<1>1. Clean /\ DoneOK
  BY DEF Reached, InProcess, ContentInv, PathInv, CountsOK
<1>2. done[i].code \in {"success", "failure"} /\ i \in DOMAIN setup.args
  <2>1. /\ done[i].code \in ExitCodes /\ DOMAIN done = 1 .. cur - 1
        /\ cur \in 1 .. Len(setup.args) + 1 /\ Len(setup.args) \in Nat
        /\ DOMAIN setup.args = 1 .. Len(setup.args)
    BY Reports DEF Reached
  <2> QED BY <1>1, <2>1 DEF Clean, ExitCodes
<1>3. setup.args[i] = Std => ~Listed("recode")
  BY <1>2 DEF RecodeNamed, UsesStd
<1>4. done[i].by = "recode" => Listed("recode")
  <2>1. done[i].by = "none" \/ Listed(done[i].by)
    BY DEF Told, InProcess, LateInv
  <2> QED BY <2>1
<1>5. /\ ~Listed("extern")
      /\ done[i].code = "failure" => CopyWorked(setup.args[i]) \/ CopyMayFail(i)
  BY DEF InProcess, CopyWorked, CopyMayFail
<1>6. /\ done[i].code = "success" => Converted(i)
      /\ done[i].code = "failure" => Untouched(i) \/ CopyMayFail(i)
  BY <1>1, <1>3, <1>4, <1>5 DEF DoneOK
<1> QED BY <1>2, <1>6

(* Whatever read, write, seek, open or library call fails, and for any      *)
(* number of files, contents, converters in any order and buffer sizes: if  *)
(* enca exits with 0 or 1, then what it counted as converted is converted   *)
(* (standard input included) and what it did not is what it was, except for *)
(* one case: the copy of a refused standard input, whose result convert()   *)
(* drops (src/convert.c:160).                                               *)
THEOREM FailuresAreTold == Spec => [](InProcess /\ RecodeNamed => ToldOrRefused)
<1>1. Reached /\ Told => (InProcess /\ RecodeNamed => ToldOrRefused)
  BY Truth
<1> QED BY <1>1, EverReached, PTL

(* Exit codes 0 and 1 tell the truth about every file (man/enca.1:771), for *)
(* any number of files, contents, converters in any order and buffer sizes, *)
(* and whatever fails on the way: main() ors what process_file()            *)
(* (src/enca.c:78) made of convert() (src/convert.c:104) for each file.     *)
THEOREM ExitStatusIsTruthful ==
  Spec => [](InProcess /\ CopyTold => ExitStatusTruthful)
<1>1. Reached /\ Told => (InProcess /\ CopyTold => ExitStatusTruthful)
  <2> SUFFICES ASSUME Reached, Told, InProcess, CopyTold PROVE ExitStatusTruthful
    OBVIOUS
  <2>1. ToldOrRefused
    BY Truth DEF CopyTold, RecodeNamed
  <2>2. \A i \in DOMAIN done : CopyMayFail(i) => UsesStd \/ i \notin DOMAIN setup.args
    BY DEF CopyMayFail, UsesStd
  <2>3. DOMAIN done \subseteq DOMAIN setup.args
    <3>1. /\ DOMAIN done = 1 .. cur - 1 /\ cur \in 1 .. Len(setup.args) + 1
          /\ Len(setup.args) \in Nat /\ DOMAIN setup.args = 1 .. Len(setup.args)
      BY Reports DEF Reached
    <3> QED BY <3>1
  <2>4. \A i \in DOMAIN done : ~CopyMayFail(i)
    BY <2>2, <2>3 DEF CopyTold, CopyMayFail
  <2> QED BY <2>1, <2>4 DEF ToldOrRefused, ExitStatusTruthful
<1> QED BY <1>1, EverReached, PTL
-----------------------------------------------------------------------------
(***************************************************************************)
(* A file is whole or being translated in place until trouble is reported.  *)
(***************************************************************************)
Safe(f) == Whole(f) \/ InPlace(f)

LEMMA SafeBy ==
  ASSUME NEW f \in Files, obj[f].data \in {orig[f], Images(orig[f])}
  PROVE  Safe(f)
BY FilebufAssumption DEF Safe, Whole, Contains, Sink, Std

LEMMA SafeTemp ==
  ASSUME NEW f, Temp \in open, obj[Temp].data \in {orig[f], Images(orig[f])}
  PROVE  Safe(f)
BY DEF Safe, Whole

LEMMA SafeExpected ==
  ASSUME StoreOK, NEW f \in Files, orig[f] \in Text, NEW by \in Converters \cup {"none"},
         obj[f].data = Expected(by, orig[f])
  PROVE  Safe(f)
<1>1. CASE by = "builtin"
  <2>1. obj[f].data = Xlat(orig[f])
    BY <1>1 DEF Expected
  <2>2. InPlace(f)
    BY <2>1 DEF InPlace, Xlat
  <2> QED BY <2>2 DEF Safe
<1>2. CASE by # "builtin"
  BY <1>2, SafeBy DEF Expected
<1> QED BY <1>1, <1>2

(* The file at work. *)
LEMMA SafeAtWork ==
  ASSUME Reached, InProcess, LateInv, Clean, pc \notin {"main", "stopped"}, h # Std,
         err # "IOFAIL"
  PROVE  Safe(h)
<1>0. /\ StreamInv /\ BufferInv /\ PathInv /\ FileInv /\ ~Listed("extern")
      /\ In = obj[h] /\ Out = obj[h] /\ h \in Files /\ Original \in Text
      /\ Source(h) = h /\ Sink(h) = h /\ StoreOK
  BY OwnPlace DEF Reached, InProcess, ContentInv
<1>1. ASSUME In.data \in {Original, Images(Original)} PROVE Safe(h)
  BY <1>0, <1>1, SafeBy DEF Original
<1>2. ASSUME Temp \in open, obj[Temp].data \in {Original, Images(Original)} PROVE Safe(h)
  BY <1>2, SafeTemp DEF Original
<1>3. Sampled \/ Emptied => Safe(h)
  BY <1>1 DEF Sampled, Emptied
<1>4. todo # <<>> => Head(todo) # "extern"
  BY <1>0, HeadListed
<1>5. By \in Converters \cup {"none"}
  BY <1>0, ByType
<1>6. ASSUME err = "OK", pc \in {"returned", "finish"} PROVE Safe(h)
  <2>1. obj[h].data = Expected(By, orig[h])
    BY <1>0, <1>6 DEF FileInv, MainOK, Original
  <2> QED BY <1>0, <1>5, <2>1, SafeExpected DEF Original
<1>7. CASE pc \in Untried \cup {"sample", "try"}
  BY <1>0, <1>3, <1>7 DEF FileInv, MainOK, Spoiled
<1>8. CASE pc = "returned"
  <2>1. err = "MALFORM" => In.data = Original
    BY <1>0 DEF FileInv, IconvOK
  <2>2. err = "CANNOT" => Sampled
    BY <1>0, <1>8 DEF FileInv, MainOK, Spoiled
  <2>3. err \in Errors
    BY <1>0 DEF StreamInv, TypeOK
  <2> QED BY <1>0, <1>1, <1>3, <1>6, <1>8, <2>1, <2>2, <2>3 DEF LateInv, Errors
<1>9. CASE pc = "finish"
  <2>1. err = "CANNOT" => In.data = Original
    BY <1>0, <1>9 DEF FileInv, MainOK, CopyWorked
  <2>2. err \in {"OK", "CANNOT"}
    BY <1>0, <1>9 DEF PathInv, ErrorsOK
  <2> QED BY <1>1, <1>6, <1>9, <2>1, <2>2
<1>10. CASE pc \in BuiltinPoints \ {"builtin"}
  <2>1. Emptied \/ \E k \in Int : HalfWay(k)
    <3>1. In.pos \in Int /\ MainSize \in Int
      BY <1>0, StoreTypes DEF MainSize, Buffers, Objects
    <3> QED BY <1>0, <1>10, <3>1 DEF FileInv, InPlaceOK, BuiltinPoints
  <2>2. ASSUME NEW k \in Int, HalfWay(k) PROVE InPlace(h)
    <3>1. /\ In.data \in Text
          /\ DOMAIN In.data = 1 .. Len(In.data) /\ DOMAIN Original = 1 .. Len(Original)
      BY <1>0, StoreTypes, TextLen DEF Objects
    <3> QED BY <1>0, <2>2, <3>1 DEF InPlace, HalfWay, Original
  <2> QED BY <1>3, <2>1, <2>2 DEF Safe
<1>11. CASE pc \in Copying
  <2>1. CallOK
    BY <1>0, <1>11 DEF StreamInv, Copying
  <2>2. call.ret # "refuse"
    BY <2>1 DEF CallOK
  <2>3. CopyGoing
    BY <1>0, <1>11, <2>2 DEF FileInv, CopyOK
  <2>4. CASE call.from = h
    <3>1. call.ret # "rd_free"
      BY <1>0, <2>1, <2>4, AtPlace DEF CallOK
    <3> QED BY <1>1, <2>3, <2>4, <3>1 DEF CopyGoing, CopySource, In
  <2>5. CASE call.from = Temp /\ Temp \in open
    <3>1. Source(Temp) = Temp
      BY AtPlace DEF Source, Std, Temp
    <3> QED BY <1>2, <2>3, <2>5, <3>1 DEF CopyGoing, CopySource
  <2> QED BY <2>1, <2>4, <2>5 DEF CallOK
<1>12. CASE pc \in IconvPoints \ Untried
  <2>1. CASE pc = "ic_free" \/ pc = "rc_done"
    <3>1. err \in {"OK", "IOFAIL", "MALFORM"} /\ (pc = "rc_done" => err = "OK")
      BY <1>0, <2>1 DEF PathInv, ErrorsOK
    <3>2. /\ pc = "ic_free" /\ err = "OK" => Out.data = Images(Original)
          /\ (pc = "rc_done" /\ err = "OK") \/ err = "MALFORM" => In.data = Original
      BY <1>0, <2>1 DEF FileInv, IconvOK
    <3> QED BY <1>0, <1>1, <2>1, <3>1, <3>2
  <2>2. CASE pc \notin {"ic_free", "rc_done"}
    <3>1. Temp \in open
      BY <1>0, <1>12, <2>2
         DEF StreamInv, TempPoints, IconvPoints, IconvLoop, Untried
    <3>2. pc = "ic_saved" => err = "OK"
      BY <1>0 DEF PathInv, ErrorsOK
    <3>3. Saved
      BY <1>0, <1>12, <2>2, <3>2
         DEF FileInv, IconvOK, IconvPoints, IconvLoop, Untried
    <3> QED BY <1>2, <3>1, <3>3 DEF Saved
  <2> QED BY <2>1, <2>2
<1>13. CASE pc \in RecodePoints \ Untried
  <2>1. h = Std \/ pc \notin {"rs_first", "rs_rest"}
    BY <1>0 DEF PathInv, HeadsOK, Stage, Copying
  <2>2. pc = "rd_free" => err = "OK"
    BY <1>0 DEF PathInv, ErrorsOK
  <2>3. Emptied \/ Out.data = Images(Original)
    BY <1>0, <1>13, <2>1, <2>2 DEF FileInv, RecodeOK, RecodePoints, Untried
  <2> QED BY <1>0, <1>1, <1>3, <2>3
<1>14. pc \notin ExternPoints \cup {"refuse"}
  <2>1. pc \in ExternPoints => Head(todo) = "extern" /\ todo # <<>>
    BY <1>0 DEF PathInv, HeadsOK, Stage, Copying, ExternPoints, StreamInv,
       BeforeConverters, BetweenFiles
  <2>2. pc = "refuse" => h = Std
    BY <1>0 DEF PathInv, HeadsOK, Stage, Copying
  <2> QED BY <1>4, <2>1, <2>2
<1>15. pc \in Labels
  BY <1>0 DEF StreamInv, TypeOK
<1> QED
  BY <1>7, <1>8, <1>9, <1>10, <1>11, <1>12, <1>13, <1>14, <1>15
     DEF Labels, Untried, Copying, BuiltinPoints, IconvPoints, IconvLoop, RecodePoints,
         ExternPoints

LEMMA Survival ==
  Reached /\ Told /\ InProcess => FilesSurvive
<1> SUFFICES ASSUME Reached, Told, InProcess PROVE LossIsReported /\ RecoveredIsOriginal
  BY DEF FilesSurvive
<1>0. StreamInv /\ PathInv /\ FileInv /\ AheadOK /\ DoneOK /\ LateInv /\ Orderly /\ BufferInv
  BY DEF Reached, Told, InProcess, ContentInv
<1>1. RecoveredIsOriginal
  <2> SUFFICES ASSUME err = "MALFORM" PROVE Contains(h, orig[h])
    BY DEF RecoveredIsOriginal
  <2>1. In.data = Original /\ h # Std
    BY <1>0 DEF FileInv, IconvOK, LateInv
  <2> QED BY <2>1 DEF Contains, In, Original, Source, Sink
<1>2. LossIsReported
  <2> SUFFICES ASSUME NEW i \in DOMAIN setup.args, setup.args[i] # Std,
                      err # "IOFAIL", status \notin {"trouble", "aborted"},
                      \A j \in DOMAIN done : done[j].code # "trouble"
               PROVE  Safe(setup.args[i])
    BY DEF LossIsReported, Safe
  <2>1. Clean
    BY DEF Clean
  <2> DEFINE f == setup.args[i]
  <2>2. /\ DOMAIN done = 1 .. cur - 1 /\ cur \in 1 .. Len(setup.args) + 1
        /\ Len(setup.args) \in Nat /\ DOMAIN setup.args = 1 .. Len(setup.args)
        /\ f \in Files
        /\ \A j \in DOMAIN done : done[j].code \in ExitCodes
                                  /\ done[j].by \in Converters \cup {"none"}
    BY <1>0, Reports
  <2>3. /\ orig[f] \in Text /\ StoreOK
        /\ Source(f) = f /\ Sink(f) = f
    BY <1>0, <2>2 DEF BufferInv, PlacesOK, Source, Sink
  <2>4. CASE i > cur \/ (i = cur /\ pc = "main")
    <3>1. obj[f].data = orig[f]
      BY <1>0, <2>3, <2>4 DEF AheadOK, Untaken
    <3> QED BY <2>2, <3>1, SafeBy
  <2>5. CASE i < cur
    <3>1. i \in DOMAIN done /\ done[i].code \in {"success", "failure"}
      BY <2>1, <2>2, <2>5 DEF Clean, ExitCodes
    <3>2. ~Listed("extern") /\ CopyWorked(f)
      BY DEF InProcess, CopyWorked
    <3>3. \/ obj[f].data = Expected(done[i].by, orig[f])
          \/ obj[f].data = orig[f]
      BY <1>0, <2>1, <2>3, <3>1, <3>2 DEF DoneOK, Converted, Untouched, Contains
    <3>4. done[i].by \in Converters \cup {"none"}
      BY <2>2, <3>1
    <3> QED BY <2>2, <2>3, <3>3, <3>4, SafeBy, SafeExpected
  <2>6. CASE i = cur /\ pc # "main"
    <3>1. pc # "stopped"
      <4>1. status \in ExitCodes \cup {"running", "aborted"}
        BY <1>0 DEF StreamInv, TypeOK
      <4> QED BY <1>0, <2>2, <2>6, <4>1 DEF PathInv, CountsOK, ExitCodes
    <3>2. h = f
      BY <2>6 DEF h
    <3>3. Safe(h)
      BY <1>0, <2>1, <2>6, <3>1, <3>2, SafeAtWork
    <3> QED BY <3>2, <3>3
  <2> QED BY <2>2, <2>4, <2>5, <2>6
<1> QED BY <1>1, <1>2

(* Whenever the program is interrupted, every named file is whole on disk   *)
(* or in the temporary file, original or converted, or is being translated  *)
(* in place byte by byte, unless trouble was or is being reported; and a    *)
(* file given back after a conversion error is what it was                  *)
(* (src/convert_iconv.c:156).  For any files, contents, buffer sizes,       *)
(* converters in the process and failures.                                  *)
THEOREM FilesDoSurvive == Spec => [](InProcess => FilesSurvive)
<1>1. Reached /\ Told => (InProcess => FilesSurvive)
  BY Survival
<1> QED BY <1>1, EverReached, PTL
-----------------------------------------------------------------------------
(***************************************************************************)
(* The pipeline keeps the promise of module Outcome.                        *)
(***************************************************************************)
Codes == [i \in DOMAIN done |-> done[i].code]

LEMMA DescribedOriginal ==
  ASSUME NEW f, Contains(f, orig[f]) PROVE "original" \in Described(f)
BY DEF Described

LEMMA PromiseStarts == Init /\ NamedFiles => Promise!Init
<1> SUFFICES ASSUME Init, NamedFiles PROVE Promise!Init
  OBVIOUS
<1>1. setup.args \in Seq(Files \cup {Std})
  BY ConvertAssumption DEF Init, Setups
<1>2. done = <<>> /\ status = "running"
      /\ obj = [o \in Objects |->
                 [data |-> IF o \in Files THEN orig[o]
                           ELSE IF o = "stdin" THEN orig[Std] ELSE <<>>,
                  pos |-> 0]]
  BY DEF Init
<1>3. ASSUME NEW i \in 1 .. Len(setup.args)
      PROVE  /\ Described(setup.args[i]) \in SUBSET {"original", "converted"}
             /\ "original" \in Described(setup.args[i])
  <2>1. setup.args[i] \in Files
    BY <1>1 DEF NamedFiles, UsesStd
  <2>2. Sink(setup.args[i]) = setup.args[i] /\ setup.args[i] \in Objects
    BY <2>1, FilebufAssumption DEF Sink, Objects, Std
  <2>3. Contains(setup.args[i], orig[setup.args[i]])
    BY <1>2, <2>1, <2>2 DEF Contains
  <2> QED BY <2>3 DEF Described
<1>4. [i \in DOMAIN done |-> done[i].code] = <<>>
  BY <1>2
<1>5. Len(setup.args) \in Nat
  BY <1>1
<1> QED BY <1>2, <1>3, <1>4, <1>5 DEF Promise!Init, Promise!Descriptions

LEMMA CodesFacts ==
  ASSUME StreamInv, PathInv
  PROVE  /\ Codes \in Seq(ExitCodes) /\ Len(Codes) = cur - 1 /\ DOMAIN Codes = DOMAIN done
         /\ \A i \in DOMAIN done : Codes[i] = done[i].code
<1>1. /\ DOMAIN done = 1 .. cur - 1 /\ cur - 1 \in Nat
      /\ \A i \in DOMAIN done : done[i].code \in ExitCodes
  BY Reports
<1>2. Codes \in [1 .. cur - 1 -> ExitCodes]
  BY <1>1 DEF Codes
<1> QED BY <1>1, <1>2 DEF Codes

LEMMA Appended ==
  ASSUME NEW S, NEW q \in Seq(S), NEW e \in S, NEW n, Len(q) = n
  PROVE  /\ DOMAIN Append(q, e) = 1 .. n + 1
         /\ Append(q, e)[n + 1] = e
         /\ \A i \in 1 .. n : Append(q, e)[i] = q[i]
         /\ Append(q, e) = [i \in 1 .. n + 1 |-> Append(q, e)[i]]
<1>1. /\ Append(q, e) \in Seq(S) /\ DOMAIN Append(q, e) = 1 .. n + 1
      /\ Append(q, e)[n + 1] = e
      /\ \A i \in 1 .. n : Append(q, e)[i] = q[i]
  OBVIOUS
<1> DEFINE s == Append(q, e)
<1>2. s \in Seq(S) /\ DOMAIN s = 1 .. n + 1
  BY <1>1
<1> HIDE DEF s
<1>3. s = [i \in DOMAIN s |-> s[i]]
  BY <1>2
<1>4. s = [i \in 1 .. n + 1 |-> s[i]]
  BY <1>2, <1>3
<1> QED BY <1>1, <1>4 DEF s

LEMMA IsAppended ==
  ASSUME NEW S, NEW q \in Seq(S), NEW e \in S, NEW n, Len(q) = n,
         NEW t \in [1 .. n + 1 -> S], t[n + 1] = e,
         \A i \in 1 .. n : t[i] = q[i]
  PROVE  t = Append(q, e)
<1> DEFINE s == Append(q, e)
<1>1. /\ s[n + 1] = e /\ s = [i \in 1 .. n + 1 |-> s[i]]
      /\ \A i \in 1 .. n : s[i] = q[i]
  BY Appended
<1>2. n \in Nat
  OBVIOUS
<1> HIDE DEF s
<1>3. ASSUME NEW i \in 1 .. n + 1
      PROVE  t[i] = s[i]
  <2>1. i \in 1 .. n \/ i = n + 1
    BY <1>2
  <2>2. i \in 1 .. n => t[i] = s[i]
    <3>1. i \in 1 .. n => t[i] = q[i] /\ s[i] = q[i]
      BY <1>1
    <3> QED BY <3>1
  <2>3. i = n + 1 => t[i] = s[i]
    <3>1. t[n + 1] = s[n + 1]
      BY <1>1
    <3> QED BY <3>1
  <2> QED BY <2>1, <2>2, <2>3
<1>4. t = s
  BY <1>1, <1>3
<1> QED BY <1>4 DEF s

LEMMA CodesAppended ==
  ASSUME StreamInv, PathInv, NEW d, d.code \in ExitCodes, done' = Append(done, d)
  PROVE  Codes' = Append(Codes, d.code)
<1> DEFINE n == cur - 1
           v == d.code
<1>1. /\ Codes \in Seq(ExitCodes) /\ Len(Codes) = n /\ n \in Nat
      /\ \A i \in 1 .. n : Codes[i] = done[i].code
      /\ done \in Seq([code : ExitCodes, by : Converters \cup {"none"}]) /\ Len(done) = n
  BY CodesFacts, Reports DEF PathInv, CountsOK
<1>2. /\ DOMAIN done' = 1 .. n + 1 /\ done'[n + 1] = d
      /\ \A i \in 1 .. n : done'[i] = done[i]
  BY <1>1
<1> HIDE DEF n
<1>3. /\ Codes'[n + 1] = v
      /\ \A i \in 1 .. n : Codes'[i] = Codes[i]
  BY <1>1, <1>2 DEF Codes
<1>5. v \in ExitCodes
  OBVIOUS
<1> HIDE DEF v
<1>4. Codes' \in [1 .. n + 1 -> ExitCodes]
  <2>1. Codes' = [i \in 1 .. n + 1 |-> Codes'[i]]
    BY <1>2 DEF Codes
  <2>2. \A i \in 1 .. n + 1 : Codes'[i] \in ExitCodes
    <3>1. \A i \in 1 .. n : Codes[i] \in ExitCodes
      BY <1>1
    <3>2. \A i \in 1 .. n + 1 : i \in 1 .. n \/ i = n + 1
      BY <1>1
    <3> QED BY <1>3, <1>5, <3>1, <3>2
  <2> QED BY <2>1, <2>2
<1> DEFINE q == Codes
           t == Codes'
<1>6. /\ q \in Seq(ExitCodes) /\ Len(q) = n /\ t \in [1 .. n + 1 -> ExitCodes]
      /\ t[n + 1] = v /\ \A i \in 1 .. n : t[i] = q[i]
  BY <1>1, <1>3, <1>4
<1> HIDE DEF q, t
<1>7. t = Append(q, v)
  BY <1>5, <1>6, IsAppended
<1> QED BY <1>7 DEF q, t, v

LEMMA NamedArgs ==
  ASSUME StreamInv, PathInv, NamedFiles
  PROVE  /\ Len(setup.args) \in Nat /\ DOMAIN setup.args = 1 .. Len(setup.args)
         /\ \A i \in DOMAIN setup.args :
              setup.args[i] \in Files /\ setup.args[i] \in Objects
              /\ Sink(setup.args[i]) = setup.args[i]
<1>1. /\ Len(setup.args) \in Nat /\ DOMAIN setup.args = 1 .. Len(setup.args)
      /\ \A i \in DOMAIN setup.args : setup.args[i] \in Files \cup {Std}
  BY Reports
<1> QED BY <1>1, FilebufAssumption DEF NamedFiles, UsesStd, Sink, Objects, Std

(* A step within a file, or one that gives up, is work on that file. *)
LEMMA IsWork ==
  ASSUME StreamInv, PathInv, cur \in 1 .. Len(setup.args),
         UNCHANGED <<setup, done, cur>>, status' \in {"running", "trouble", "aborted"},
         \A i \in 1 .. Len(setup.args) :
           i # cur => Described(setup.args[i])' = Described(setup.args[i])
  PROVE  Promise!Work
<1> DEFINE n == Len(setup.args)
           c == [i \in 1 .. n |-> Described(setup.args[i])]
           d == Described(setup.args[cur])'
           k == Len([i \in DOMAIN done |-> done[i].code]) + 1
<1>1. k = cur
  <2>1. Len([i \in DOMAIN done |-> done[i].code]) = cur - 1 /\ cur \in Nat
    BY CodesFacts DEF Codes
  <2> QED BY <2>1
<1>2. n' = n /\ setup' = setup /\ cur' = cur
  OBVIOUS
<1>3. d \in SUBSET {"original", "converted"}
  BY DEF Described
<1>4. c' = [c EXCEPT ![cur] = d]
  <2>1. c' = [i \in 1 .. n |-> Described(setup.args[i])']
    BY <1>2
  <2>2. \A i \in 1 .. n : c'[i] = IF i = cur THEN d ELSE c[i]
    <3> SUFFICES ASSUME NEW i \in 1 .. n PROVE c'[i] = IF i = cur THEN d ELSE c[i]
      OBVIOUS
    <3>1. c'[i] = Described(setup.args[i])'
      BY <2>1
    <3>2. CASE i = cur
      BY <1>2, <3>1, <3>2
    <3>3. CASE i # cur
      BY <3>1, <3>3
    <3> QED BY <3>2, <3>3
  <2>3. c' = [i \in 1 .. n |-> c'[i]]
    BY <2>1
  <2>4. DOMAIN c = 1 .. n /\ c = [i \in 1 .. n |-> c[i]]
    OBVIOUS
  <2> HIDE DEF c, d
  <2> QED BY <2>2, <2>3, <2>4
<1>5. \E e \in SUBSET {"original", "converted"} : c' = [c EXCEPT ![k] = e]
  BY <1>1, <1>3, <1>4
<1>6. k <= n
  BY <1>1
<1>7. [i \in DOMAIN done |-> done[i].code]' = [i \in DOMAIN done |-> done[i].code]
  OBVIOUS
<1> QED
  BY <1>2, <1>5, <1>6, <1>7, Zenon
     DEF Promise!Work, Promise!Current, Promise!Descriptions

LEMMA IsReport ==
  ASSUME StreamInv, PathInv, cur <= Len(setup.args), NEW d, d.code \in ExitCodes,
         done' = Append(done, d), UNCHANGED <<setup, orig, status>>,
         \A i \in 1 .. Len(setup.args) :
           Described(setup.args[i])' = Described(setup.args[i]),
         Clean => /\ d.code = "success" => Described(h) # {}
                  /\ d.code = "failure" => "original" \in Described(h)
  PROVE  Promise!Report
<1> DEFINE n == Len(setup.args)
           c == [i \in 1 .. n |-> Described(setup.args[i])]
           w == [i \in DOMAIN done |-> done[i].code]
           k == Len(w) + 1
           v == d.code
<1>1. k = cur /\ cur \in 1 .. n
  <2>1. Len(w) = cur - 1 /\ cur \in 1 .. n + 1 /\ n \in Nat
    BY CodesFacts, Reports DEF Codes
  <2> QED BY <2>1
<1>2. n' = n /\ c' = c /\ status' = status
  OBVIOUS
<1>3. w' = Append(w, v)
  BY CodesAppended DEF Codes
<1>4. c[k] = Described(h)
  BY <1>1 DEF h
<1>5. (\E i \in DOMAIN w : w[i] = "trouble") <=> ~Clean
  BY DEF Clean
<1>6. v \in {"success", "failure", "trouble"}
  BY DEF ExitCodes
<1>7. Clean => /\ v = "success" => c[k] # {}
               /\ v = "failure" => "original" \in c[k]
  BY <1>4
<1>8. k <= n
  BY <1>1
<1>9. Promise!Whole(v) \/ ~Clean
  <2> HIDE DEF v
  <2>1. ~Clean \/ (v = "success" /\ c[k] # {}) \/ (v = "failure" /\ "original" \in c[k])
        \/ v = "trouble"
    BY <1>6, <1>7
  <2> HIDE DEF c
  <2> QED BY <2>1 DEF Promise!Whole, Promise!Current, c
<1>10. Promise!Trouble <=> ~Clean
  BY <1>5 DEF Promise!Trouble
<1> HIDE DEF v
<1>11. \E x \in {"success", "failure", "trouble"} :
         /\ Promise!Trouble \/ Promise!Whole(x)
         /\ w' = Append(w, x)
  BY <1>3, <1>6, <1>9, <1>10
<1> QED BY <1>2, <1>8, <1>11, Zenon DEF Promise!Report, Promise!Current

LEMMA PromiseWithin ==
  ASSUME Reached, NamedFiles, Next, pc \notin {"main", "finish"}
  PROVE  Promise!Work /\ status = "running"
<1>0. StreamInv /\ PathInv /\ BufferInv
  BY DEF Reached
<1>1. InFile /\ FarKept /\ cur \in 1 .. Len(setup.args)
  BY <1>0, StepWhere
<1>2. status = "running"
  <2>1. pc # "stopped"
    BY StepPoints
  <2> QED BY <1>0, <2>1 DEF PathInv, CountsOK
<1>3. ASSUME NEW i \in 1 .. Len(setup.args), i # cur
      PROVE  Described(setup.args[i])' = Described(setup.args[i])
  <2>1. i \in DOMAIN setup.args /\ setup.args[i] \in Files /\ Sink(setup.args[i]) = setup.args[i]
    BY <1>0, NamedArgs
  <2>2. Sink(setup.args[i]) \in Objects \ NearObjects
    BY <1>0, <1>1, <1>3, <2>1, OtherFile DEF NamedFiles
  <2>3. obj'[setup.args[i]].data = obj[setup.args[i]].data
    BY <1>1, <2>1, <2>2 DEF FarKept
  <2> QED BY <1>1, <2>1, <2>3 DEF Described, Contains, Sink, InFile
<1> QED BY <1>0, <1>1, <1>2, <1>3, IsWork DEF InFile

LEMMA DescribedOutside ==
  ASSUME StreamInv, PathInv, BufferInv, NamedFiles, OpenFile \/ FinishFile \/ Exit
  PROVE  /\ UNCHANGED <<setup, orig>>
         /\ \A i \in 1 .. Len(setup.args) :
              Described(setup.args[i])' = Described(setup.args[i])
<1>1. UNCHANGED <<setup, orig>> /\ \A o \in Objects : obj'[o].data = obj[o].data
  BY StepOutside
<1> SUFFICES ASSUME NEW i \in 1 .. Len(setup.args)
             PROVE  Described(setup.args[i])' = Described(setup.args[i])
  BY <1>1
<1>2. setup.args[i] \in Objects /\ Sink(setup.args[i]) = setup.args[i]
  BY NamedArgs
<1> QED BY <1>1, <1>2 DEF Described, Contains, Sink

LEMMA PromiseFinish ==
  ASSUME Reached, Told, NamedFiles, FinishFile
  PROVE  status = "running" /\ (Promise!Report \/ Promise!Work)
<1>0. /\ StreamInv /\ PathInv /\ BufferInv /\ FileInv /\ pc = "finish" /\ status = "running"
      /\ cur \in 1 .. Len(setup.args) /\ h # Std
  <2>1. StreamInv /\ PathInv /\ BufferInv /\ FileInv /\ pc = "finish"
    BY NamedAreOrderly DEF Reached, ContentInv, InProcess, FinishFile
  <2>2. status = "running" /\ cur \in 1 .. Len(setup.args)
    BY <2>1, CurrentHandle DEF PathInv, CountsOK
  <2>3. h # Std
    BY <2>2 DEF NamedFiles, UsesStd, h
  <2> QED BY <2>1, <2>2, <2>3
<1> DEFINE code == IF (err = "OK" /\ req.kind = "unknown") \/ err = "CANNOT" THEN "failure"
                   ELSE IF err = "OK" THEN "success" ELSE "trouble"
           d == [code |-> code, by |-> By]
<1>1. /\ Report(code, By) /\ status' \in {status, "trouble"}
      /\ UNCHANGED <<setup, orig>>
      /\ \A i \in 1 .. Len(setup.args) :
           Described(setup.args[i])' = Described(setup.args[i])
  <2>1. Report(code, By) /\ status' \in {status, "trouble"}
    BY DEF FinishFile, FileClose, By
  <2> QED BY <1>0, <2>1, DescribedOutside
<1>2. CASE status' = "running"
  <2>1. done' = Append(done, d) /\ d.code = code /\ code \in ExitCodes
    BY <1>1, <1>2 DEF Report, ExitCodes
  <2>2. /\ code = "success" => err = "OK"
        /\ code = "failure" => err = "CANNOT" \/ (err = "OK" /\ By = "none")
    BY DEF By
  <2>3. ~Listed("extern") /\ Source(h) = h /\ Sink(h) = h /\ By \in Converters \cup {"none"}
    BY <1>0, ByType DEF NamedFiles, Source, Sink
  <2>4. err = "OK" /\ Clean => Out.data = Expected(By, Original)
    BY <1>0 DEF FileInv, MainOK
  <2>5. err = "CANNOT" => Out.data = Original
    BY <1>0, <2>3 DEF FileInv, MainOK, CopyWorked
  <2>6. Out.data = Original => "original" \in Described(h)
    BY DEF Out, Original, Described, Contains
  <2>7. Out.data \in {Xlat(Original), Images(Original)} => "converted" \in Described(h)
    BY DEF Out, Original, Described, Contains
  <2>8. Expected(By, Original) \in {Original, Xlat(Original), Images(Original)}
        /\ (By = "none" => Expected(By, Original) = Original)
    BY DEF Expected
  <2>9. Clean => /\ code = "success" => Described(h) # {}
                 /\ code = "failure" => "original" \in Described(h)
    BY <2>2, <2>4, <2>5, <2>6, <2>7, <2>8
  <2> HIDE DEF d, code
  <2>10. Promise!Report
    BY <1>0, <1>1, <1>2, <2>1, <2>9, IsReport
  <2> QED BY <1>0, <2>10
<1>3. CASE status' # "running"
  <2>1. /\ status' = "trouble" /\ UNCHANGED <<setup, done, cur>>
    BY <1>0, <1>1, <1>3 DEF Report
  <2> QED BY <1>0, <1>1, <2>1, IsWork
<1> QED BY <1>2, <1>3

LEMMA PromiseOpen ==
  ASSUME Reached, NamedFiles, OpenFile
  PROVE  status = "running" /\ (Promise!Report \/ UNCHANGED Promise!ovars)
<1>0. /\ StreamInv /\ PathInv /\ BufferInv /\ pc = "main" /\ cur <= Len(setup.args)
      /\ status = "running"
  BY DEF Reached, OpenFile, PathInv, CountsOK
<1>1. /\ UNCHANGED <<setup, orig>>
      /\ \A i \in 1 .. Len(setup.args) :
           Described(setup.args[i])' = Described(setup.args[i])
  BY <1>0, DescribedOutside
<1>2. CASE FileOpen(h) /\ done' = done
  <2>1. status' = status
    BY <1>2 DEF FileOpen
  <2>2. [i \in 1 .. Len(setup.args) |-> Described(setup.args[i])]'
          = [i \in 1 .. Len(setup.args) |-> Described(setup.args[i])]
    BY <1>1
  <2> QED BY <1>0, <1>1, <1>2, <2>1, <2>2 DEF Promise!ovars
<1>3. CASE FileOpenFails(h) /\ Report("trouble", "none")
  <2> DEFINE d == [code |-> "trouble", by |-> "none"]
  <2>1. /\ status' = status /\ done' = Append(done, d) /\ d.code = "trouble"
        /\ d.code \in ExitCodes
    BY <1>0, <1>3 DEF FileOpenFails, Report, ExitCodes
  <2> HIDE DEF d
  <2> QED BY <1>0, <1>1, <2>1, IsReport
<1> QED BY <1>2, <1>3 DEF OpenFile

LEMMA PromiseExit ==
  ASSUME Reached, NamedFiles, Exit
  PROVE  status = "running" /\ Promise!Finish
<1>0. /\ StreamInv /\ PathInv /\ BufferInv /\ pc = "main" /\ cur > Len(setup.args)
      /\ status = "running"
  BY DEF Reached, Exit, PathInv, CountsOK
<1> DEFINE w == [i \in DOMAIN done |-> done[i].code]
           n == Len(setup.args)
           c == [i \in 1 .. n |-> Described(setup.args[i])]
<1>1. Len(w) + 1 = n + 1
  <2>1. Len(w) = cur - 1 /\ cur \in 1 .. n + 1 /\ n \in Nat
    BY <1>0, CodesFacts, Reports DEF Codes
  <2> QED BY <1>0, <2>1
<1>2. n' = n /\ c' = c /\ w' = w
  <2>1. UNCHANGED done
    BY DEF Exit, Stop, Jump, ctlrest
  <2>2. /\ UNCHANGED <<setup, orig>>
        /\ \A i \in 1 .. n : Described(setup.args[i])' = Described(setup.args[i])
    BY <1>0, DescribedOutside
  <2> QED BY <2>1, <2>2
<1>3. status' = Promise!Worst
  <2> DEFINE S == {done[i].code : i \in DOMAIN done}
  <2>1. status' = ExitStatus(S)
    BY DEF Exit
  <2>2. /\ "trouble" \in S <=> \E i \in DOMAIN w : w[i] = "trouble"
        /\ "failure" \in S <=> \E i \in DOMAIN w : w[i] = "failure"
    OBVIOUS
  <2> HIDE DEF S, w
  <2>3. status' = IF \E i \in DOMAIN w : w[i] = "trouble" THEN "trouble"
                  ELSE IF \E i \in DOMAIN w : w[i] = "failure" THEN "failure"
                  ELSE "success"
    BY <2>1, <2>2 DEF ExitStatus
  <2> QED BY <2>3 DEF Promise!Worst, Promise!Trouble, w
<1> QED BY <1>0, <1>1, <1>2, <1>3, Zenon DEF Promise!Finish, Promise!Current

LEMMA PromiseKept ==
  Reached /\ Told /\ NamedFiles /\ [Next]_vars => [Promise!Next]_(Promise!ovars)
<1> SUFFICES ASSUME Reached, Told, NamedFiles, [Next]_vars
             PROVE  Promise!Next \/ UNCHANGED Promise!ovars
  OBVIOUS
<1>1. CASE UNCHANGED vars
  <2>1. UNCHANGED <<setup, orig, obj, done, status>>
    BY <1>1 DEF vars, fbvars, ctlvars
  <2> QED BY <2>1 DEF Promise!ovars, Described, Contains
<1>2. CASE Next /\ pc \notin {"main", "finish"}
  BY <1>2, PromiseWithin DEF Promise!Next
<1>3. CASE Next /\ pc \in {"main", "finish"}
  BY <1>3, StepPoints, PromiseOpen, PromiseFinish, PromiseExit DEF Promise!Next
<1> QED BY <1>1, <1>2, <1>3

(* enca -x over any number of different named files keeps the promise of    *)
(* its exit codes (man/enca.1:769): process_file() (src/enca.c:101) touches *)
(* one file at a time and reports each once, a file it reports without      *)
(* trouble is whole, converted or as it was, and main() exits with the      *)
(* worst of the reports.  Every step of the pipeline is a step of module    *)
(* Outcome or changes nothing it speaks of.                                 *)
THEOREM PipelineKeepsPromise == Spec /\ NamedFiles => KeepsPromise
<1>1. NamedFiles /\ [Next]_vars => NamedFiles'
  BY SetupFixed DEF NamedFiles, Distinct, UsesStd, Listed
<1> QED
  BY <1>1, PromiseStarts, PromiseKept, EverReached, PTL
     DEF KeepsPromise, Promise!Spec, Spec
-----------------------------------------------------------------------------
(***************************************************************************)
(* Standard output.  A failure on an earlier file may leave bytes in the    *)
(* iconv buffer, so standard input is the first of the files, or the only   *)
(* one.                                                                     *)
(***************************************************************************)
StdFirst == \A i \in DOMAIN setup.args : setup.args[i] = Std => i = 1
Goals == {orig[Std], Xlat(orig[Std]), Images(orig[Std])}
StdInv ==
  Distinct /\ StdFirst => StdoutIsPrefix /\ InternalRefusalCopies

LEMMA IsPrefix ==
  ASSUME NEW s \in Text, NEW t \in Text, Len(s) <= Len(t),
         \A i \in 1 .. Len(s) : s[i] = t[i]
  PROVE  s \in Prefixes(t)
<1>1. Len(s) \in 0 .. Len(t)
  BY TextLen
<1>2. /\ SubSeq(t, 1, Len(s)) \in Text /\ Len(SubSeq(t, 1, Len(s))) = Len(s)
      /\ \A i \in 1 .. Len(s) : SubSeq(t, 1, Len(s))[i] = t[i]
  BY TextPart, TextLen
<1>3. s = SubSeq(t, 1, Len(s))
  BY <1>2, TextEqual
<1> QED BY <1>1, <1>3 DEF Prefixes

LEMMA PrefixOfSum ==
  ASSUME NEW s \in Text, NEW m \in Text, NEW z \in Text, NEW k \in 0 .. Len(m)
  PROVE  s \o SubSeq(m, 1, k) \in Prefixes((s \o m) \o z)
<1> DEFINE p == SubSeq(m, 1, k)
           q == SubSeq(m, k + 1, Len(m))
<1>1. p \in Text /\ q \in Text /\ Len(m) \in Nat
  <2>1. Len(m) \in Nat
    BY TextLen
  <2> QED BY <2>1, TextPart, TextBehind
<1>2. p \o q = m
  <2>0. 1 \in Nat /\ 1 >= 1 /\ k \in Nat /\ 1 <= k + 1 /\ k <= Len(m) /\ Len(m) <= Len(m)
    BY <1>1
  <2>1. SubSeq(m, 1, k) \o SubSeq(m, k + 1, Len(m)) = SubSeq(m, 1, Len(m))
    BY <1>1, <2>0, TextSplit
  <2> QED BY <2>1, TextFull
<1> HIDE DEF p, q
<1>3. q \o z \in Text /\ s \o p \in Text
  BY <1>1, TextConcat
<1> DEFINE a == s \o p
           b == q \o z
<1>5. a \in Text /\ b \in Text
  BY <1>3
<1>4. (s \o m) \o z = a \o b
  <2>1. s \o m = a \o q
    BY <1>1, <1>2, TextAssociative
  <2>0. a \in Text /\ q \in Text /\ z \in Text
    BY <1>1, <1>5
  <2> HIDE DEF a
  <2>2. (a \o q) \o z = a \o (q \o z)
    BY <2>0, TextAssociative
  <2> QED BY <2>1, <2>2
<1> HIDE DEF a, b
<1>6. /\ a \o b \in Text /\ Len(a) <= Len(a \o b)
      /\ \A i \in 1 .. Len(a) : a[i] = (a \o b)[i]
  <2>1. Len(a) \in Nat /\ Len(b) \in Nat
    BY <1>5, TextLen
  <2> QED BY <1>5, <2>1, TextConcat
<1>7. a \in Prefixes(a \o b)
  BY <1>5, <1>6, IsPrefix
<1> QED BY <1>4, <1>7 DEF a, b, p

(* The steps that may write to it. *)
LEMMA StdoutFrame ==
  ASSUME StreamInv, PathInv, BufferInv, Next, h = Std, pc \notin {"main", "finish"}
  PROVE  \/ obj'["stdout"] = obj["stdout"]
         \/ CopyWrite /\ call.to = Std
         \/ CopyFlushFails \/ IconvFull \/ IconvWrite \/ RecodeBuffer \/ RecodeRest
         \/ ExternRun
<1> USE DEF Try, Std, Temp
<1>0. /\ obj \in [Objects -> Stream] /\ Source(Std) = "stdin" /\ Source(Temp) = Temp
      /\ Sink(Temp) = Temp /\ "stdout" \in Objects
      /\ pc \notin NamedOnly
  <2>1. pc # "stopped"
    BY StepPoints
  <2> QED BY <2>1, AtPlace DEF BufferInv, StoreOK, ObjectsOK, Source, Sink, Objects
<1>1. pc \in {"copy_write", "copy_read"} =>
        /\ Source(call.from) # "stdout"
        /\ call.to # Std => Sink(call.to) # "stdout"
  BY <1>0 DEF StreamInv, CallOK
<1>2. CASE Main
  BY <1>0, <1>2 DEF Main, OpenFile, ReadSample, Analyse, FinishFile, Exit, FileRead,
     FileReadFails, fbvars
<1>3. CASE Choose
  BY <1>3 DEF Choose, TryConverter, Refuse, Returned, fbvars
<1>4. CASE Copy
  BY <1>0, <1>1, <1>4 DEF Copy, CopyWrite, CopyRead, FileRead,
     FileReadFails, FileWrite, FileWriteFails
<1>5. CASE BuiltinStep
  BY <1>0, <1>5
     DEF BuiltinStep, Builtin, BuiltinSeek, BuiltinRead, BuiltinSeekBack,
         BuiltinWrite, BuiltinSync, fbvars, NamedOnly
<1>6. CASE IconvStep
  BY <1>0, <1>6
     DEF IconvStep, IconvStart, IconvDies, IconvTemp, IconvSave, IconvSaved,
         IconvRewind, IconvTruncate, IconvRead, IconvReadAborts, IconvCharacter,
         IconvBlockEnd, IconvMalformed, IconvFree, FreeTemp,
         Recover, RecoverSeekFrom, RecoverSeekTo, RecoverTruncate, RecoverDone,
         FileRead, FileReadFails, FileWrite, FileWriteFails, FileSeek, FileSeekFails,
         FileTemporary, FileTemporaryFails, FileTemporaryExits, fbvars, NamedOnly
<1>7. CASE RecodeStep
  <2>1. CASE RecodeStart \/ RecodeNoLibrary \/ RecodeSystemError
    BY <2>1 DEF RecodeStart, RecodeNoLibrary, RecodeSystemError, fbvars
  <2>2. ~(\/ RecodeTemp \/ RecodeSeek \/ RecodeTask \/ RecodeRewindFile
          \/ RecodeRewindTemp \/ RecodeTruncate \/ RecodeFree)
    BY <1>0 DEF RecodeTemp, RecodeSeek, RecodeTask, RecodeRewindFile, RecodeRewindTemp,
       RecodeTruncate, RecodeFree, FreeTemp, NamedOnly
  <2> QED BY <1>7, <2>1, <2>2 DEF RecodeStep
<1>8. CASE ExternStep
  BY <1>0, <1>8
     DEF ExternStep, ExternStart, ExternTemp, ExternSaved, ExternDies, ExternFree,
         FileTemporary, FileTemporaryFails, FileTemporaryExits, fbvars
<1> QED BY <1>2, <1>3, <1>4, <1>5, <1>6, <1>7, <1>8 DEF Next

(* A copy to standard output, whole or cut short. *)
LEMMA CopyToStdout ==
  ASSUME StreamInv, PathInv, BufferInv, FileInv, pc \in Copying, CopyGoing,
         h = Std, call.to = Std, NEW k \in 0 .. Len(CopyBytes)
  PROVE  Overwritten(obj["stdout"], SubSeq(CopyBytes, 1, k)).data
           \in Prefixes(Original) \cup Prefixes(Xlat(Original))
<1> DEFINE T == CopyTarget
           S == CopySource
           bytes == CopyBytes
           p == SubSeq(bytes, 1, k)
           r == Overwritten(T, p)
           n == Len(bytes)
<1>0. /\ S.data \in Text /\ S.pos \in Nat /\ Len(S.data) \in Nat
      /\ T.data \in Text /\ T.pos \in Nat /\ Len(T.data) \in Nat /\ T \in Stream
      /\ T.pos <= Len(T.data) /\ T = obj["stdout"] /\ call.xlat \in BOOLEAN
      /\ bytes \in Text /\ n = CopyBuffer.pos /\ n \in Nat /\ k \in 0 .. n
      /\ \A i \in 1 .. n : bytes[i] = CopyGoal[T.pos + i]
  BY CopyPlaces, CopyNext, TextLen DEF CopyTarget, Sink
<1>1. call.ret \notin {"rd_free", "rc_done"}
  BY <1>0, AtCopy DEF Copying, NamedOnly
<1>2. /\ T.pos + n = S.pos /\ S.pos <= Len(S.data) /\ S.data = Original
      /\ \A i \in 1 .. T.pos : T.data[i] = CopyGoal[i]
      /\ Len(T.data) = T.pos
  BY <1>0, <1>1 DEF CopyGoing
<1>3. /\ CopyGoal \in {Original, Xlat(Original)} /\ CopyGoal \in Text
      /\ Len(CopyGoal) = Len(S.data)
  BY <1>0, <1>2, XlatType DEF CopyGoal
<1> HIDE DEF T, S, bytes, n
<1>4. p \in Text /\ Len(p) = k /\ \A i \in 1 .. k : p[i] = bytes[i]
  <2>1. k \in Int /\ k <= Len(bytes) /\ 1 \in Nat /\ 1 >= 1
    BY <1>0 DEF n
  <2> QED BY <1>0, <2>1, TextPart
<1> HIDE DEF p
<1>5. /\ r \in Stream /\ r.pos = T.pos + k
      /\ Len(r.data) = IF r.pos >= Len(T.data) THEN r.pos ELSE Len(T.data)
      /\ \A i \in 1 .. T.pos : r.data[i] = T.data[i]
      /\ \A i \in 1 .. k : r.data[T.pos + i] = p[i]
  BY <1>0, <1>4, OverwrittenFacts
<1> HIDE DEF r
<1>6. Len(r.data) = T.pos + k /\ Len(r.data) <= Len(CopyGoal) /\ r.data \in Text
  BY <1>0, <1>2, <1>3, <1>5 DEF Stream
<1>7. \A i \in 1 .. Len(r.data) : r.data[i] = CopyGoal[i]
  <2> TAKE i \in 1 .. Len(r.data)
  <2>1. CASE i <= T.pos
    BY <1>0, <1>2, <1>5, <1>6, <2>1
  <2>2. CASE i > T.pos
    <3>1. i - T.pos \in 1 .. k /\ i - T.pos \in 1 .. n /\ T.pos + (i - T.pos) = i
      BY <1>0, <1>6, <2>2, SMTT(30)
    <3> QED BY <1>0, <1>4, <1>5, <3>1
  <2> QED BY <1>0, <1>6, <2>1, <2>2
<1>8. r.data \in Prefixes(CopyGoal)
  BY <1>3, <1>6, <1>7, IsPrefix
<1> QED BY <1>0, <1>3, <1>8 DEF r, p, bytes

(* The output of the loop of convert_iconv(), whole or cut short. *)
LEMMA IconvToStdout ==
  ASSUME StreamInv, PathInv, BufferInv, FileInv, IconvStep, h = Std,
         pc \in {"ic_full", "ic_write"}, Clean, NEW k \in 0 .. Len(mem["main"].data)
  PROVE  Overwritten(obj["stdout"], SubSeq(mem["main"].data, 1, k)).data
           \in Prefixes(Images(Original))
<1> DEFINE m == mem["main"].data
           p == SubSeq(m, 1, k)
<1>0. /\ Out = obj["stdout"] /\ Out \in Stream /\ Out.data \in Text /\ m \in Text
      /\ mem["iconv"].data \in Text /\ used \in Nat
      /\ obj[Temp].data \in Text /\ obj[Temp].pos \in Nat
  BY AtIconv DEF Out, Sink
<1>1. PICK z \in Text : /\ Out.pos = Len(Out.data)
                        /\ Images(Original) = (Out.data \o m) \o Images(z)
  <2>1. Flow(ToCome(used)) \/ Flow(ToCome(0))
    BY DEF FileInv, IconvOK
  <2>2. ToCome(used) \in Text /\ ToCome(0) \in Text
    <3>1. 0 \in Nat
      OBVIOUS
    <3> QED BY <1>0, <3>1, RestFacts, TextConcat DEF ToCome
  <2> QED BY <2>1, <2>2 DEF Flow
<1>2. Images(z) \in Text
  BY ImagesType
<1> HIDE DEF m
<1>3. p \in Text
  <2>1. k \in Int /\ k <= Len(m) /\ 1 \in Nat /\ 1 >= 1
    BY <1>0, TextLen DEF m
  <2> QED BY <1>0, <2>1, TextPart
<1> HIDE DEF p
<1>4. Overwritten(Out, p).data = Out.data \o p
  <2>1. Out.pos <= Len(Out.data)
    BY <1>0, <1>1, TextLen
  <2> QED BY <1>0, <1>1, <1>3, <2>1, OverwrittenFacts
<1>5. k \in 0 .. Len(m)
  BY DEF m
<1>6. Out.data \o p \in Prefixes((Out.data \o m) \o Images(z))
  BY <1>0, <1>2, <1>5, PrefixOfSum DEF p
<1> QED BY <1>0, <1>1, <1>4, <1>6 DEF p, m

LEMMA StdoutStep ==
  ASSUME StreamInv, PathInv, BufferInv, FileInv, Clean, LoudOnly, Streaming, h = Std, Next,
         pc \notin {"main", "finish"},
         \E s \in Goals : obj["stdout"].data \in Prefixes(s)
  PROVE  \E s \in Goals : obj'["stdout"].data \in Prefixes(s)
<1>0. /\ pc # "stopped" /\ StoreOK /\ obj \in [Objects -> Stream] /\ "stdout" \in Objects
      /\ Sink(Std) = "stdout" /\ Original = orig[Std] /\ obj["stdout"].data \in Text
      /\ obj["stdout"].pos \in Nat /\ obj["stdout"].pos <= Len(obj["stdout"].data)
      /\ Original \in Text
  <2>1. pc # "stopped"
    BY StepPoints
  <2>2. StoreOK /\ orig[Std] \in Text
    BY DEF BufferInv, PlacesOK
  <2> QED BY <2>1, <2>2, StoreTypes DEF StoreOK, ObjectsOK, Objects, Sink, Original, Tight
<1>1. ASSUME NEW r, obj' = [obj EXCEPT !["stdout"] = r] PROVE obj'["stdout"] = r
  BY <1>0, <1>1
<1>2. CASE CopyWrite /\ call.to = Std
  <2>0. pc = "copy_write" /\ pc \in Copying /\ CopyBytes \in Text /\ Len(CopyBytes) \in Nat
    BY <1>2, AtCopy, TextLen DEF CopyWrite, Try, Copying
  <2>1. PICK k \in 0 .. Len(CopyBytes) :
          obj' = [obj EXCEPT !["stdout"] = Overwritten(@, SubSeq(CopyBytes, 1, k))]
    <3>1. CASE FileWrite(call.to, call.buf, CopyBytes)
      <4>1. SubSeq(CopyBytes, 1, Len(CopyBytes)) = CopyBytes
        BY <2>0, TextFull
      <4>2. Len(CopyBytes) \in 0 .. Len(CopyBytes)
        BY <2>0
      <4> QED BY <1>0, <1>2, <3>1, <4>1, <4>2 DEF FileWrite
    <3>2. CASE FileWriteFails(call.to, call.buf, CopyBytes)
      <4>1. 0 .. Len(CopyBytes) - 1 \subseteq 0 .. Len(CopyBytes)
        BY <2>0
      <4> QED BY <1>0, <1>2, <3>2, <4>1 DEF FileWriteFails
    <3> QED BY <1>2, <3>1, <3>2 DEF CopyWrite, Try
  <2>2. obj'["stdout"] = Overwritten(obj["stdout"], SubSeq(CopyBytes, 1, k))
    BY <1>1, <2>1
  <2>3. CASE CopyGoing
    <3>1. obj'["stdout"].data \in Prefixes(Original) \cup Prefixes(Xlat(Original))
      BY <1>2, <2>0, <2>2, <2>3, CopyToStdout
    <3> QED BY <1>0, <3>1 DEF Goals
  <2>4. CASE call.ret = "refuse" /\ Spoiled
    <3>1. call.buf = "main" /\ ~call.xlat /\ MainSize = 0
      BY <2>0, <2>4 DEF PathInv, CallsOK, Spoiled, Drained, Copying
    <3>2. Len(CopyBytes) = 0 /\ CopyBytes = <<>>
      <4>1. Len(mem["main"].data) = 0
        <5>1. Len(mem["main"].data) = IF mem["main"].pos = -1 THEN 0 ELSE mem["main"].pos
          BY <1>0 DEF StoreOK, BuffersOK, Buffers
        <5> QED BY <3>1, <5>1 DEF MainSize
      <4> QED BY <2>0, <3>1, <4>1, TextLen DEF CopyBytes
    <3>3. SubSeq(CopyBytes, 1, k) = CopyBytes
      <4>1. k = 0 /\ k = Len(CopyBytes)
        BY <3>2
      <4> QED BY <2>0, <4>1, TextFull
    <3>4. obj'["stdout"].data = obj["stdout"].data
      <4> DEFINE o == obj["stdout"]
                 r == Overwritten(o, CopyBytes)
      <4>1. o \in Stream /\ o.data \in Text /\ Len(o.data) \in Nat /\ o.pos \in Nat
            /\ o.pos <= Len(o.data)
        BY <1>0, TextLen
      <4> HIDE DEF o
      <4>2. /\ r \in Stream /\ r.pos = o.pos + Len(CopyBytes)
            /\ Len(r.data) = IF r.pos >= Len(o.data) THEN r.pos ELSE Len(o.data)
            /\ \A i \in 1 .. o.pos : r.data[i] = o.data[i]
            /\ \A i \in r.pos + 1 .. Len(o.data) : r.data[i] = o.data[i]
        BY <2>0, <4>1, OverwrittenFacts
      <4> HIDE DEF r
      <4>3. r.pos = o.pos /\ Len(r.data) = Len(o.data) /\ r.data \in Text
        BY <3>2, <4>1, <4>2 DEF Stream
      <4>4. \A i \in 1 .. Len(r.data) : r.data[i] = o.data[i]
        BY <4>1, <4>2, <4>3
      <4>5. r.data = o.data
        BY <4>1, <4>3, <4>4, TextEqual
      <4> QED BY <2>2, <3>3, <4>5 DEF r, o
    <3> QED BY <3>4
  <2> QED BY <2>0, <2>3, <2>4 DEF FileInv, CopyOK
<1>3. CASE CopyFlushFails
  BY <1>3 DEF CopyFlushFails, FlushLoses, LoudOnly
<1>4. CASE IconvFull \/ IconvWrite
  <2> DEFINE m == mem["main"].data
  <2>0. pc \in {"ic_full", "ic_write"} /\ IconvStep /\ m \in Text /\ Len(m) \in Nat
    BY <1>0, <1>4, AtPlace, TextLen DEF IconvFull, IconvWrite, Try, IconvStep
  <2>1. PICK k \in 0 .. Len(m) :
          obj' = [obj EXCEPT !["stdout"] = Overwritten(@, SubSeq(m, 1, k))]
    <3>1. CASE FileWrite(h, "main", m)
      <4>1. SubSeq(m, 1, Len(m)) = m
        BY <2>0, TextFull
      <4>2. Len(m) \in 0 .. Len(m)
        BY <2>0
      <4> QED BY <1>0, <3>1, <4>1, <4>2 DEF FileWrite
    <3>2. CASE FileWriteFails(h, "main", m)
      <4>1. 0 .. Len(m) - 1 \subseteq 0 .. Len(m)
        BY <2>0
      <4> QED BY <1>0, <3>2, <4>1 DEF FileWriteFails
    <3> QED BY <1>4, <3>1, <3>2 DEF IconvFull, IconvWrite, Try
  <2>2. obj'["stdout"] = Overwritten(obj["stdout"], SubSeq(m, 1, k))
    BY <1>1, <2>1
  <2>3. obj'["stdout"].data \in Prefixes(Images(Original))
    BY <2>0, <2>2, IconvToStdout
  <2> QED BY <1>0, <2>3 DEF Goals
<1>5. ~(RecodeBuffer \/ RecodeRest)
  <2>1. pc \in {"rs_first", "rs_rest"} => Listed("recode")
    <3>1. pc \in {"rs_first", "rs_rest"} => Head(todo) = "recode" /\ todo # <<>>
      BY DEF PathInv, HeadsOK, Stage, Copying, RecodePoints, StreamInv,
         BeforeConverters, BetweenFiles
    <3> QED BY <3>1, HeadListed
  <2> QED BY <2>1 DEF RecodeBuffer, RecodeRest, Streaming
<1>6. CASE ExternRun
  <2>1. pc = "ex_run" /\ obj[Temp].data = Original
        /\ obj["stdout"].data = <<>> /\ obj["stdout"].pos = 0
    BY <1>6 DEF ExternRun, FileInv, ExternOK, Saved, Unwritten, Out, Sink
  <2>2. CASE obj' = obj
    BY <2>2
  <2>3. CASE \E part \in Prefixes(Images(Original)) \cup {Images(Original)} :
               obj' = [obj EXCEPT !["stdout"] = Overwritten(@, part)]
    <3>1. PICK part \in Prefixes(Images(Original)) \cup {Images(Original)} :
            obj' = [obj EXCEPT !["stdout"] = Overwritten(@, part)]
      BY <2>3
    <3>2. Images(Original) \in Text
      BY <1>0, ImagesType
    <3>3. Images(Original) \in Prefixes(Images(Original))
      <4>1. Len(Images(Original)) <= Len(Images(Original))
        BY <3>2, TextLen
      <4> QED BY <3>2, <4>1, IsPrefix
    <3>4. part \in Prefixes(Images(Original)) /\ part \in Text
      BY <3>2, <3>3, PrefixType
    <3>5. obj'["stdout"] = Overwritten(obj["stdout"], part)
      BY <1>1, <3>1
    <3>6. obj'["stdout"].data = <<>> \o part
      <4>1. obj["stdout"] \in Stream /\ Len(obj["stdout"].data) = 0
        BY <1>0, <2>1, TextLen
      <4> DEFINE o == obj["stdout"]
      <4>2. o \in Stream /\ o.pos <= Len(o.data) /\ o.pos = Len(o.data) /\ o.data = <<>>
        BY <2>1, <4>1
      <4> HIDE DEF o
      <4>3. Overwritten(o, part).data = o.data \o part
        BY <3>4, <4>2, OverwrittenFacts
      <4> QED BY <3>5, <4>2, <4>3 DEF o
    <3>7. obj'["stdout"].data = part
      BY <3>4, <3>6, TextEmpty
    <3> QED BY <1>0, <3>4, <3>7 DEF Goals
  <2>4. \/ obj' = obj
        \/ obj' = [obj EXCEPT !["stdout"] = Overwritten(@, Images(Original))]
        \/ \E part \in Prefixes(Images(Original)) :
             obj' = [obj EXCEPT !["stdout"] = Overwritten(@, part)]
    BY <1>0, <1>6, <2>1 DEF ExternRun
  <2> QED BY <2>2, <2>3, <2>4
<1>7. CASE obj'["stdout"] = obj["stdout"]
  BY <1>7
<1> QED BY <1>2, <1>3, <1>4, <1>5, <1>6, <1>7, StdoutFrame

(* Reports are only added, one at a time. *)
LEMMA StepCur ==
  ASSUME StreamInv, PathInv, BufferInv, [Next]_vars
  PROVE  /\ cur' \in {cur, cur + 1}
         /\ \A i \in DOMAIN done : done'[i] = done[i]
<1>1. CASE UNCHANGED vars
  BY <1>1 DEF vars, fbvars, ctlvars
<1>2. CASE Next /\ pc \notin {"main", "finish"}
  BY <1>2, StepWhere DEF InFile
<1>3. CASE Next /\ pc \in {"main", "finish"}
  <2>1. OpenFile \/ FinishFile \/ Exit
    BY <1>3, StepPoints
  <2>2. CASE cur' = cur /\ done' = done
    BY <2>2
  <2>3. CASE \E code, by : Report(code, by)
    <3>1. PICK d : (cur' = cur /\ done' = done) \/ (cur' = cur + 1 /\ done' = Append(done, d))
      BY <2>3 DEF Report
    <3>2. \A i \in DOMAIN done : Append(done, d)[i] = done[i]
      BY DEF PathInv, CountsOK
    <3> QED BY <3>1, <3>2
  <2> QED BY <2>1, <2>2, <2>3 DEF OpenFile, FinishFile, Exit, Stop, Jump, ctlrest
<1> QED BY <1>1, <1>2, <1>3

(* While another file is at work, or none, standard output stays. *)
LEMMA StdoutElsewhere ==
  ASSUME StreamInv, PathInv, BufferInv, [Next]_vars,
         pc \in {"main", "finish"} \/ h # Std
  PROVE  obj'["stdout"] = obj["stdout"] /\ orig' = orig
<1>1. CASE UNCHANGED vars
  BY <1>1 DEF vars, fbvars, ctlvars
<1>2. CASE Next /\ pc \in {"main", "finish"}
  BY <1>2, StepPoints, StepOutside
<1>3. CASE Next /\ pc \notin {"main", "finish"}
  <2>1. InFile /\ FarKept /\ pc # "stopped"
    BY <1>3, StepWhere, StepPoints
  <2>2. h \in Files
    BY <1>3, <2>1, CurrentHandle
  <2>3. "stdout" \in Objects \ NearObjects
    BY <2>2, FilebufAssumption DEF Objects, NearObjects, Source, Sink, Std, Temp
  <2> QED BY <2>1, <2>3 DEF FarKept, InFile
<1> QED BY <1>2, <1>1, <1>3

(* Standard input is at work only while nothing was reported. *)
LEMMA StdAtWork ==
  ASSUME StreamInv, PathInv, StdFirst, pc \notin {"main", "stopped"}, h = Std
  PROVE  cur = 1 /\ DOMAIN done = {} /\ Clean
<1>1. /\ cur \in 1 .. Len(setup.args) /\ DOMAIN done = 1 .. cur - 1
      /\ DOMAIN setup.args = 1 .. Len(setup.args)
  BY CurrentHandle, Reports
<1>2. cur = 1
  BY <1>1 DEF StdFirst, h
<1> QED BY <1>1, <1>2 DEF Clean

LEMMA StepPrefix ==
  ASSUME Reached, Distinct, StdFirst, StdoutIsPrefix, [Next]_vars
  PROVE  StdoutIsPrefix'
<1> SUFFICES ASSUME LoudOnly, Streaming
             PROVE  \E s \in Goals' : obj'["stdout"].data \in Prefixes(s)
  BY SetupFixed DEF StdoutIsPrefix, LoudOnly, Streaming, Listed, Goals, faults
<1>0. /\ StreamInv /\ PathInv /\ BufferInv /\ FileInv
      /\ \E s \in Goals : obj["stdout"].data \in Prefixes(s)
  BY DEF Reached, ContentInv, Orderly, ExternLast, LoudOnly, Streaming, StdoutIsPrefix, Goals
<1>1. CASE UNCHANGED vars \/ pc \in {"main", "finish"} \/ h # Std
  <2>1. obj'["stdout"] = obj["stdout"] /\ orig' = orig
    BY <1>0, <1>1, StdoutElsewhere DEF vars, fbvars, ctlvars
  <2> QED BY <1>0, <2>1 DEF Goals
<1>2. CASE Next /\ pc \notin {"main", "finish"} /\ h = Std
  <2>1. pc # "stopped" /\ Clean /\ orig' = orig
    BY <1>0, <1>2, StepPoints, StdAtWork, StepWhere DEF InFile
  <2>2. \E s \in Goals : obj'["stdout"].data \in Prefixes(s)
    BY <1>0, <1>2, <2>1, StdoutStep
  <2> QED BY <2>1, <2>2 DEF Goals
<1> QED BY <1>1, <1>2

LEMMA StepRefusal ==
  ASSUME Reached, Distinct, StdFirst, InternalRefusalCopies, [Next]_vars
  PROVE  InternalRefusalCopies'
<1> SUFFICES ASSUME faults \cap {"read", "write", "flush"} = {}, ~Listed("extern"),
                    NEW i \in DOMAIN done', done'[i].code = "failure",
                    setup.args[i] = Std
             PROVE  obj'["stdout"].data = orig'[Std]
  BY SetupFixed
     DEF InternalRefusalCopies, RefusalCopiesStdin, Untouched, Contains, Listed, Sink, faults
<1>0. /\ StreamInv /\ PathInv /\ BufferInv /\ Orderly
      /\ setup' = setup
  BY SetupFixed DEF Reached, Orderly, ExternLast, Listed
<1>1. /\ DOMAIN done = 1 .. cur - 1 /\ Len(done) = cur - 1 /\ cur \in 1 .. Len(setup.args) + 1
      /\ DOMAIN setup.args = 1 .. Len(setup.args) /\ Len(setup.args) \in Nat
  BY <1>0, Reports
<1>2. PathInv' /\ StreamInv' /\ ContentInv'
  BY <1>0, StepPath, StepStream, StepContent DEF Reached
<1>3. DOMAIN done' = 1 .. cur' - 1 /\ cur' \in Nat /\ i \in DOMAIN setup.args
  <2> DEFINE D == [code : ExitCodes, by : Converters \cup {"none"}]
  <2>1. done' \in Seq(D) /\ Len(done') = cur' - 1
    BY <1>2 DEF PathInv, CountsOK
  <2>2. cur' \in 1 .. Len(setup.args) + 1
    BY <1>0, <1>2 DEF StreamInv, TypeOK
  <2> HIDE DEF D
  <2>3. DOMAIN done' = 1 .. cur' - 1
    BY <2>1
  <2> QED BY <1>1, <2>2, <2>3
<1>4. i = 1
  BY <1>3 DEF StdFirst
<1>5. CASE i \in DOMAIN done /\ done'[i] = done[i]
  <2>1. obj["stdout"].data = orig[Std]
    BY <1>5 DEF InternalRefusalCopies, RefusalCopiesStdin, Untouched, Contains, Sink
  <2>2. pc \in {"main", "finish"} \/ h # Std \/ UNCHANGED vars
    <3>1. Next => pc # "stopped"
      BY StepPoints
    <3> QED BY <1>0, <1>5, <3>1, StdAtWork
  <2> QED BY <1>0, <2>1, <2>2, StdoutElsewhere DEF vars, fbvars, ctlvars
<1>6. CASE i \notin DOMAIN done
  <2>1. Clean'
    <3>1. DOMAIN done' = {1}
      <4>1. cur' <= 2
        <5>1. cur = 1
          BY <1>1, <1>4, <1>6
        <5>2. cur' \in {cur, cur + 1}
          BY <1>0, StepCur
        <5> QED BY <1>1, <5>1, <5>2
      <4>2. 1 \in 1 .. cur' - 1
        BY <1>3, <1>4
      <4>3. 1 .. cur' - 1 = {1}
        BY <1>3, <4>1, <4>2
      <4> QED BY <1>3, <4>3
    <3> QED BY <1>4, <3>1 DEF Clean
  <2>2. DoneOK'
    BY <1>0, <1>2 DEF ContentInv, Orderly, Distinct, ExternLast, UsesStd, faults
  <2>3. CopyWorked(Std)' /\ ~Listed("extern")' /\ setup'.args[i] = Std
    BY <1>0 DEF CopyWorked, Listed, faults
  <2>4. Untouched(i)'
    BY <2>1, <2>2, <2>3 DEF DoneOK
  <2> QED BY <2>3, <2>4 DEF Untouched, Contains, Sink
<1>7. CASE i \in DOMAIN done /\ done'[i] # done[i]
  BY <1>0, <1>7, StepCur
<1> QED BY <1>5, <1>6, <1>7

LEMMA StartStd == Init => StdInv
<1> SUFFICES ASSUME Init PROVE StdoutIsPrefix /\ InternalRefusalCopies
  BY DEF StdInv
<1>1. obj["stdout"].data = <<>> /\ done = <<>> /\ orig[Std] \in Text
  <2>1. BufferInv
    BY InitBuffer
  <2>2. "stdout" \in Objects /\ "stdout" \notin Files /\ "stdout" # "stdin"
    BY FilebufAssumption DEF Objects
  <2>3. obj["stdout"].data = <<>> /\ done = <<>>
    BY <2>2 DEF Init
  <2> QED BY <2>1, <2>3 DEF BufferInv, PlacesOK
<1>2. <<>> \in Prefixes(orig[Std])
  <2>1. <<>> \in Text /\ Len(<<>>) = 0 /\ Len(orig[Std]) \in Nat
    BY <1>1, TextEmpty, TextLen
  <2> QED BY <1>1, <2>1, IsPrefix
<1> QED
  BY <1>1, <1>2 DEF StdoutIsPrefix, InternalRefusalCopies, RefusalCopiesStdin

LEMMA StepStd == Reached /\ StdInv /\ [Next]_vars => StdInv'
<1>1. [Next]_vars => (Distinct' => Distinct) /\ (StdFirst' => StdFirst)
  BY SetupFixed DEF Distinct, StdFirst
<1> QED BY <1>1, StepPrefix, StepRefusal DEF StdInv

(* Standard output never holds anything but a beginning of the input or of  *)
(* its conversion, whatever is tried and fails on the way, and the input    *)
(* whole if no converter took it (src/convert.c:144-160): for any input,    *)
(* any order of the converters and any sizes of the buffers, and any files  *)
(* processed after it.                                                      *)
THEOREM StdoutStaysTruthful == Spec => [](Distinct /\ StdFirst => StdoutIsTruthful)
<1>1. StdInv => (Distinct /\ StdFirst => StdoutIsTruthful)
  BY DEF StdInv, StdoutIsTruthful
<1> QED BY <1>1, StartStd, StepStd, EverReached, PTL DEF Spec

LEMMA Streamed ==
  Reached /\ Told /\ Distinct /\ (Clean \/ Len(setup.args) = 1) => StreamedIsConverted
<1> SUFFICES ASSUME Reached, Told, Distinct, Clean \/ Len(setup.args) = 1, LoudOnly,
                    Streaming, NEW i \in DOMAIN done, done[i].code = "success"
             PROVE  Converted(i)
  BY DEF StreamedIsConverted, SuccessIsConversion
<1>1. /\ DOMAIN done = 1 .. cur - 1 /\ cur \in 1 .. Len(setup.args) + 1
      /\ Len(setup.args) \in Nat
  BY Reports DEF Reached
<1>2. Clean
  <2>1. CASE Len(setup.args) = 1
    <3>1. \A j \in DOMAIN done : j = i
      BY <1>1, <2>1
    <3> QED BY <3>1 DEF Clean
  <2> QED BY <2>1
<1>3. Orderly
  BY DEF Orderly, ExternLast, LoudOnly, Streaming
<1>4. done[i].by # "recode"
  <2>1. done[i].by = "none" \/ Listed(done[i].by)
    BY <1>3 DEF Told, LateInv
  <2> QED BY <2>1 DEF Streaming
<1> QED BY <1>2, <1>3, <1>4 DEF Reached, ContentInv, DoneOK

(* A success that is reported of a file or of standard input, to a list     *)
(* without librecode, is a complete conversion and nothing else             *)
(* (src/convert_iconv.c:38): of each file as long as no trouble was         *)
(* reported, and of a single one in any case.                               *)
THEOREM StreamIsConverted ==
  Spec => [](Distinct /\ (Clean \/ Len(setup.args) = 1) => StreamedIsConverted)
<1>1. Reached /\ Told
        => (Distinct /\ (Clean \/ Len(setup.args) = 1) => StreamedIsConverted)
  BY Streamed
<1> QED BY <1>1, EverReached, PTL
=============================================================================
