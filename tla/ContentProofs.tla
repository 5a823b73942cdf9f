---------------------------- MODULE ContentProofs ----------------------------
(* Proofs about the contents of the files and of standard output.           *)
EXTENDS ConvertProofs

(***************************************************************************)
(* The command lines the proofs are about: no file is named twice, nothing  *)
(* follows the external converter, and the flush of standard output works   *)
(* where it is used.                                                        *)
(***************************************************************************)
Distinct ==
  \A i, j \in DOMAIN setup.args : setup.args[i] = setup.args[j] => i = j
ExternLast ==
  \A i \in DOMAIN setup.convs : setup.convs[i] = "extern" => i = Len(setup.convs)
UsesStd == \E i \in DOMAIN setup.args : setup.args[i] = Std
Orderly == Distinct /\ ExternLast /\ (UsesStd => "flush" \notin faults)

(* No trouble was reported so far. *)
Clean == \A j \in DOMAIN done : done[j].code # "trouble"
Copying == {"copy_write", "copy_read"}
-----------------------------------------------------------------------------
(***************************************************************************)
(* How process_file() got where it is: the converter at work is the head of *)
(* the list, and err only leaves 0 on the way out.                          *)
(***************************************************************************)
BuiltinPoints == {"builtin", "bi_seek", "bi_read", "bi_back", "bi_write", "bi_sync"}
IconvLoop == {"ic_read", "ic_conv", "ic_full", "ic_write"}
IconvPoints == {"iconv", "ic_temp", "ic_save", "ic_saved", "ic_rewind", "ic_trunc",
                "ic_free", "rc_from", "rc_to", "rc_trunc", "rc_done"} \cup IconvLoop
RecodePoints == {"recode", "rd_temp", "rd_seek", "rd_task", "rd_file", "rd_rewind",
                 "rd_trunc", "rd_free", "rs_first", "rs_rest"}
ExternPoints == {"extern", "ex_temp", "ex_saved", "ex_run", "ex_free"}
ConverterPoints == BuiltinPoints \cup IconvPoints \cup RecodePoints \cup ExternPoints

(* The point of the program, or the one a copy returns to. *)
Stage == IF pc \in Copying THEN call.ret ELSE pc

HeadsOK ==
  /\ Stage \in ConverterPoints \cup {"try", "returned", "refuse"} => req.kind = "known"
  /\ Stage \in BuiltinPoints => Head(todo) = "builtin"
  /\ Stage \in BuiltinPoints \ {"builtin"} => req.builtin = "xlat"
  /\ Stage \in IconvPoints => Head(todo) = "iconv"
  /\ Stage \in RecodePoints => Head(todo) = "recode"
  /\ Stage \in ExternPoints => Head(todo) = "extern"
  /\ Stage \in {"ex_temp", "ex_saved", "ex_free", "refuse", "rs_first", "rs_rest"} => h = Std
  /\ Stage = "refuse" => todo = <<>>

TodoOK ==
  /\ \A i \in DOMAIN todo :
       Listed(todo[i]) /\ (ExternLast /\ todo[i] = "extern" => i = Len(todo))
  /\ req.kind = "known" => req.builtin \in {"cannot", "identity", "xlat"}

CallsOK ==
  pc \in Copying =>
    /\ call.xlat \in BOOLEAN
    /\ call.buf = IF call.ret = "rc_done" THEN "iconv" ELSE "main"
    /\ call.ret = "finish" => req.kind # "known"
    /\ call.ret = "returned" =>
         /\ Head(todo) = "builtin" /\ h = Std /\ req.builtin # "cannot"
         /\ call.xlat <=> req.builtin = "xlat"
    /\ call.xlat => call.ret = "returned"

ErrorsOK ==
  /\ pc = "main" => err = "OK"
  /\ pc \in {"sample", "analyse"} \cup (ConverterPoints \ ReturnPoints)
       => err = "OK"
  /\ pc \in Copying => err = "OK" \/ (err = "CANNOT" /\ call.ret = "refuse")
  /\ pc = "try" => err \in {"OK", "CANNOT"}
  /\ pc = "refuse" =>
       \/ err = "OK"
       \/ err = "IOFAIL" /\ ("read" \in faults \/ "write" \in faults)
  /\ pc = "finish" => err \in {"OK", "CANNOT", "IOFAIL"}
  /\ pc = "finish" /\ err = "OK" => req.kind # "known" \/ todo # <<>>
  /\ pc = "finish" /\ err = "CANNOT" => req.kind = "known"
  /\ pc = "ic_free" => err \in {"OK", "IOFAIL", "MALFORM"}
  /\ pc \in {"ic_saved", "rc_done", "rd_free", "ex_saved"} => err \in {"OK", "IOFAIL"}
  /\ pc = "ex_free" => err \in {"OK", "IOFAIL", "CANNOT", "EXEC"}
  /\ err = "MALFORM" => pc \in {"ic_free", "returned", "stopped"}

CountsOK ==
  /\ pc = "stopped" <=> status # "running"
  /\ status \in {"success", "failure"} => cur > Len(setup.args) /\ Clean /\ err = "OK"
  /\ done \in Seq([code : ExitCodes, by : Converters \cup {"none"}])
  /\ Len(done) = cur - 1

PathInv == HeadsOK /\ TodoOK /\ CallsOK /\ ErrorsOK /\ CountsOK
-----------------------------------------------------------------------------
(***************************************************************************)
(* What the objects hold.                                                   *)
(***************************************************************************)
Original == orig[h]
In == obj[Source(h)]
Out == obj[Sink(h)]
Rest(s, k) == SubSeq(s, k + 1, Len(s))

(* Nothing was written to standard output yet. *)
Unwritten == h = Std => Out.data = <<>> /\ Out.pos = 0

(* The main buffer holds what was read of the untouched input so far.       *)
Sampled ==
  /\ In.data = Original /\ Unwritten
  /\ MainSize = In.pos /\ In.pos <= Len(Original)
  /\ \A i \in 1 .. MainSize : mem["main"].data[i] = Original[i]

Emptied == In.data = Original /\ MainSize = 0 /\ Unwritten
Drained == MainSize = 0 /\ In.pos = Len(In.data)

(* No converter took the file, or the external one spoiled it. *)
Spoiled == Listed("extern") /\ (h = Std => Drained)

(* The temporary file holds the original. *)
Saved == obj[Temp].data = Original

(* Converted in place up to position k. *)
HalfWay(k) ==
  /\ Len(In.data) = Len(Original)
  /\ \A i \in 1 .. Len(Original) :
       In.data[i] = IF i <= k THEN Xlat(Original)[i] ELSE Original[i]
(* The buffer holds what stands behind position k. *)
Holds(k) ==
  /\ k + MainSize <= Len(Original)
  /\ \A i \in 1 .. MainSize : mem["main"].data[i] = Original[k + i]

InPlaceOK ==
  /\ pc = "bi_seek" => Emptied
  /\ pc \in {"bi_read", "bi_sync"} => HalfWay(In.pos)
  /\ pc = "bi_back" => HalfWay(In.pos - MainSize) /\ Holds(In.pos - MainSize)
  /\ pc = "bi_write" => HalfWay(In.pos) /\ Holds(In.pos)

(* A copy: what was written is a beginning of the source, translated or     *)
(* not, and the buffer holds what comes next.                               *)
CopySource == obj[Source(call.from)]
CopyTarget == obj[Sink(call.to)]
CopyBuffer == mem[call.buf]
CopyGoal == IF call.xlat THEN Xlat(CopySource.data) ELSE CopySource.data
CopyGoing ==
  /\ CopySource.data = IF call.ret = "rd_free" THEN Images(Original) ELSE Original
  /\ CopyBuffer.pos >= 0 /\ CopyTarget.pos + CopyBuffer.pos = CopySource.pos
  /\ CopySource.pos <= Len(CopySource.data)
  /\ \A i \in 1 .. CopyBuffer.pos :
       CopyBuffer.data[i] = CopySource.data[CopyTarget.pos + i]
  /\ \A i \in 1 .. CopyTarget.pos : CopyTarget.data[i] = CopyGoal[i]
  /\ Len(CopyTarget.data) = IF call.ret = "rc_done" THEN Len(CopySource.data)
                                                    ELSE CopyTarget.pos
  /\ call.ret \in {"ic_saved", "ex_saved"} => Unwritten
CopyOK ==
  /\ pc \in Copying => CopyGoing \/ (call.ret = "refuse" /\ Spoiled)
  /\ pc = "copy_read" => CopyBuffer.pos = 0

(* The loop of convert_iconv(): the output, what waits in the main buffer   *)
(* and the image of the input still to come are the image of the file.      *)
Flow(rest) ==
  /\ Out.pos = Len(Out.data)
  /\ Images(Original) = (Out.data \o mem["main"].data) \o Images(rest)
ToCome(k) ==
  Rest(mem["iconv"].data, k) \o Rest(obj[Temp].data, obj[Temp].pos)
IconvOK ==
  /\ pc \in {"ic_rewind", "ic_trunc"} \/ (pc = "ic_saved" /\ err = "OK")
       => Saved /\ MainSize = 0 /\ Unwritten
  /\ pc \in {"ic_trunc", "rc_to", "rc_trunc"} => obj[Temp].pos = 0
  /\ pc \in IconvLoop \cup {"rc_from", "rc_to", "rc_trunc"} => Saved
  /\ pc = "ic_read" => MainSize = 0
  /\ pc = "ic_save" => obj[Temp] = EmptyBuffer
  /\ pc \in {"ic_read", "ic_write"} /\ Clean
       => Flow(ToCome(0)) /\ mem["iconv"].pos >= 0
  /\ pc \in {"ic_conv", "ic_full"} /\ Clean => Flow(ToCome(used))
  /\ pc \in {"ic_conv", "ic_full", "ic_write"} /\ eof
       => obj[Temp].pos >= Len(obj[Temp].data)
  /\ (pc = "ic_write" /\ eof) \/ (pc = "rc_done" /\ err = "OK") => mem["iconv"].pos = 0
  /\ pc = "ic_free" /\ err = "OK" /\ Clean => Out.data = Images(Original)
  /\ (pc = "rc_done" /\ err = "OK") \/ err = "MALFORM" => In.data = Original
  /\ pc \in {"rc_from", "rc_to", "rc_trunc"} => fsize = Len(Original)

(* Between the files the iconv buffer is empty. *)
IconvBufferOK ==
  /\ Clean /\ pc # "stopped" /\ (err # "IOFAIL" \/ pc = "refuse")
  /\ Stage \notin IconvLoop \cup {"rc_from", "rc_to", "rc_trunc", "rc_done"}
  => mem["iconv"].pos = 0

RecodeOK ==
  /\ pc \in {"rd_temp", "rd_seek", "rd_task"} => Emptied
  /\ pc = "rd_task" => In.pos = 0
  /\ pc \in {"rd_file", "rd_rewind", "rd_trunc"} =>
       Emptied /\ obj[Temp].data = Images(Original)
  /\ pc = "rd_trunc" => obj[Temp].pos = 0
  /\ pc = "rd_free" /\ err = "OK" => Out.data = Images(Original)

ExternOK ==
  /\ (pc = "ex_saved" /\ err = "OK") \/ pc = "ex_run" =>
       IF h = Std THEN Saved /\ Unwritten /\ Drained ELSE Sampled
  /\ pc = "ex_free" /\ err = "OK" => Out.data = Images(Original)
  /\ pc = "ex_free" /\ err = "CANNOT" => Drained

(* The converter FinishFile will name. *)
By == IF \/ req.kind # "known"
         \/ todo = <<>>
         \/ Head(todo) = "builtin" /\ req.builtin = "identity"
      THEN "none" ELSE Head(todo)

Untried == {"analyse", "builtin", "iconv", "ic_temp", "ic_save", "recode", "extern",
            "ex_temp"}
CopyWorked(f) == f = Std => "read" \notin faults /\ "write" \notin faults

MainOK ==
  /\ pc = "sample" => Emptied /\ In.pos = 0
  /\ pc \in Untried => Sampled
  /\ pc = "try" => Sampled \/ (todo = <<>> /\ Spoiled)
  /\ pc = "returned" /\ err = "CANNOT"
       => Sampled \/ (Head(todo) = "extern" /\ Spoiled)
  /\ pc \in {"returned", "finish"} /\ err = "OK" /\ Clean /\ ~(By = "recode" /\ h = Std)
       => Out.data = Expected(By, Original)
  /\ pc = "refuse" /\ err = "OK" /\ ~Listed("extern") => Out.data = Original
  /\ pc = "finish" /\ err = "CANNOT" /\ ~Listed("extern") /\ CopyWorked(h)
       => Out.data = Original
  /\ pc \notin {"main", "stopped", "finish"} => fsize = Len(Original)

FileInv ==
  MainOK /\ InPlaceOK /\ CopyOK /\ IconvOK /\ IconvBufferOK /\ RecodeOK /\ ExternOK

(* The files whose turn is still to come, and those that are done. *)
Untaken(f) ==
  /\ obj[Source(f)].data = orig[f]
  /\ f = Std => /\ obj["stdin"].pos = 0
                /\ obj["stdout"].data = <<>> /\ obj["stdout"].pos = 0
AheadOK ==
  \A i \in DOMAIN setup.args :
    (i > cur \/ (i = cur /\ pc = "main")) => Untaken(setup.args[i])
DoneOK ==
  Clean =>
    \A i \in DOMAIN done :
      LET f == setup.args[i]
      IN /\ done[i].code = "success" /\ ~(done[i].by = "recode" /\ f = Std)
              => Converted(i)
         /\ done[i].code = "failure" /\ ~Listed("extern") /\ CopyWorked(f)
              => Untouched(i)

ContentInv == Orderly => FileInv /\ AheadOK /\ DoneOK
-----------------------------------------------------------------------------
LEMMA InitPath == Init => PathInv
<1> SUFFICES ASSUME Init PROVE PathInv
  OBVIOUS
<1>1. /\ pc = "main" /\ err = "OK" /\ cur = 1 /\ todo = <<>> /\ done = <<>>
      /\ status = "running" /\ req.kind = "unknown"
  BY DEF Init
<1>2. done \in Seq([code : ExitCodes, by : Converters \cup {"none"}]) /\ Len(done) = cur - 1
  BY <1>1
<1> QED
  BY <1>1, <1>2
     DEF PathInv, HeadsOK, TodoOK, CallsOK, ErrorsOK, CountsOK, Stage, Copying,
         ConverterPoints, BuiltinPoints, IconvPoints, IconvLoop, RecodePoints,
         ExternPoints, ReturnPoints

(* A step within the file that goes on to l with error e. *)
LEMMA PathJump ==
  ASSUME StreamInv, PathInv, BufferInv, NEW l, NEW e, Jump(l, e),
         l \notin Copying \cup {"main", "try", "finish", "refuse"},
         l \in {"sample", "analyse"} \cup (ConverterPoints \ ReturnPoints) => e = "OK",
         l \in {"ic_saved", "rc_done", "rd_free", "ex_saved"} => e \in {"OK", "IOFAIL"},
         l = "ic_free" => e \in {"OK", "IOFAIL", "MALFORM"},
         l = "ex_free" => e \in {"OK", "IOFAIL", "CANNOT", "EXEC"},
         e = "MALFORM" => l \in {"ic_free", "returned", "stopped"},
         l \in ConverterPoints \cup {"returned"} => req.kind = "known",
         l \in BuiltinPoints => Head(todo) = "builtin",
         l \in BuiltinPoints \ {"builtin"} => req.builtin = "xlat",
         l \in IconvPoints => Head(todo) = "iconv",
         l \in RecodePoints => Head(todo) = "recode",
         l \in ExternPoints => Head(todo) = "extern",
         l \in {"ex_temp", "ex_saved", "ex_free", "rs_first", "rs_rest"} => h = Std
  PROVE  HeadsOK' /\ CallsOK' /\ ErrorsOK'
<1>1. /\ pc' = l \/ pc' = "stopped"
      /\ err' = e /\ h' = h /\ UNCHANGED <<setup, req, todo, call>>
  BY JumpFacts
<1>2. pc' \notin Copying /\ Stage' = pc'
  BY <1>1 DEF Copying, Stage
<1> USE DEF ConverterPoints, BuiltinPoints, IconvPoints, IconvLoop, RecodePoints,
            ExternPoints, ReturnPoints, Copying
<1>3. CASE pc' = "stopped"
  BY <1>1, <1>2, <1>3 DEF HeadsOK, CallsOK, ErrorsOK
<1>4. CASE pc' = l
  <2>1. HeadsOK'
    BY <1>1, <1>2, <1>4 DEF HeadsOK
  <2>2. CallsOK'
    BY <1>1, <1>2, <1>4 DEF CallsOK
  <2>3. ErrorsOK'
    BY <1>1, <1>2, <1>4 DEF ErrorsOK
  <2> QED BY <2>1, <2>2, <2>3
<1> QED BY <1>1, <1>3, <1>4

(* The start of a copy that returns to l. *)
LEMMA PathCall ==
  ASSUME StreamInv, PathInv, BufferInv,
         NEW f, NEW t, NEW x \in BOOLEAN, NEW b,
         NEW l \in {"refuse", "returned", "ic_saved", "rc_done", "rd_free", "ex_saved"},
         Call(f, t, x, b, l),
         b = IF l = "rc_done" THEN "iconv" ELSE "main",
         x => l = "returned",
         err = "OK" \/ (err = "CANNOT" /\ l = "refuse"),
         req.kind = "known",
         l = "refuse" => todo = <<>> /\ h = Std,
         l = "returned" => /\ Head(todo) = "builtin" /\ h = Std
                           /\ req.builtin # "cannot" /\ (x <=> req.builtin = "xlat"),
         l \in IconvPoints => Head(todo) = "iconv",
         l \in RecodePoints => Head(todo) = "recode",
         l \in ExternPoints => Head(todo) = "extern" /\ h = Std
  PROVE  HeadsOK' /\ CallsOK' /\ ErrorsOK'
<1>1. /\ pc' = "copy_write" \/ pc' = "stopped"
      /\ call'.ret = l /\ call'.buf = b /\ call'.xlat = x /\ h' = h
      /\ UNCHANGED <<setup, err, req, todo>>
  BY CallFacts
<1> USE DEF ConverterPoints, BuiltinPoints, IconvPoints, IconvLoop, RecodePoints,
            ExternPoints, ReturnPoints, Copying
<1>3. CASE pc' = "stopped"
  <2>1. Stage' = "stopped"
    BY <1>3 DEF Stage
  <2> QED BY <1>1, <1>3, <2>1 DEF HeadsOK, CallsOK, ErrorsOK
<1>4. CASE pc' = "copy_write"
  <2>0. Stage' = l
    BY <1>1, <1>4 DEF Stage
  <2>1. HeadsOK'
    BY <1>1, <2>0 DEF HeadsOK
  <2>2. CallsOK'
    BY <1>1, <1>4 DEF CallsOK
  <2>3. ErrorsOK'
    BY <1>1, <1>4 DEF ErrorsOK
  <2> QED BY <2>1, <2>2, <2>3
<1> QED BY <1>1, <1>3, <1>4

LEMMA PathMain ==
  ASSUME StreamInv, PathInv, BufferInv, Main
  PROVE  HeadsOK' /\ CallsOK' /\ ErrorsOK'
<1> USE DEF ConverterPoints, BuiltinPoints, IconvPoints, IconvLoop, RecodePoints,
            ExternPoints, ReturnPoints, Copying
<1>1. CASE OpenFile \/ FinishFile
  <2>1. CASE \E code, by : Report(code, by)
    <3>1. pc' \in {"main", "stopped"} /\ err' = "OK"
      BY <2>1 DEF Report, Goto
    <3>2. Stage' = pc'
      BY <3>1 DEF Stage
    <3> QED BY <3>1, <3>2 DEF HeadsOK, CallsOK, ErrorsOK
  <2>2. CASE Goto("sample") /\ UNCHANGED err /\ pc = "main"
    <3>1. pc' \in {"sample", "stopped"} /\ err' = "OK"
      BY <2>2 DEF Goto, PathInv, ErrorsOK
    <3>2. Stage' = pc'
      BY <3>1 DEF Stage
    <3> QED BY <3>1, <3>2 DEF HeadsOK, CallsOK, ErrorsOK
  <2> QED BY <1>1, <2>1, <2>2 DEF OpenFile, FinishFile
<1>2. CASE ReadSample
  <2>1. pc = "sample" /\ err = "OK"
    BY <1>2 DEF ReadSample, Try, PathInv, ErrorsOK
  <2>2. CASE Jump("analyse", err)
    BY <2>1, <2>2, PathJump
  <2>3. CASE Jump("finish", "IOFAIL")
    <3>1. pc' \in {"finish", "stopped"} /\ err' = "IOFAIL"
      BY <2>3, JumpFacts
    <3>2. Stage' = pc'
      BY <3>1 DEF Stage
    <3> QED BY <3>1, <3>2 DEF HeadsOK, CallsOK, ErrorsOK
  <2> QED BY <1>2, <2>2, <2>3 DEF ReadSample, Try
<1>3. CASE Analyse
  <2>1. pc = "analyse" /\ err = "OK" /\ err' = err
    BY <1>3 DEF Analyse, PathInv, ErrorsOK
  <2>2. CASE req'.kind = "known" /\ Goto("try")
    <3>1. pc' \in {"try", "stopped"}
      BY <2>2 DEF Goto
    <3>2. Stage' = pc'
      BY <3>1 DEF Stage
    <3> QED BY <2>1, <2>2, <3>1, <3>2 DEF HeadsOK, CallsOK, ErrorsOK
  <2>3. CASE req'.kind # "known" /\ Goto("finish")
    <3>1. pc' \in {"finish", "stopped"}
      BY <2>3 DEF Goto
    <3>2. Stage' = pc'
      BY <3>1 DEF Stage
    <3> QED BY <2>1, <2>3, <3>1, <3>2 DEF HeadsOK, CallsOK, ErrorsOK
  <2>4. CASE /\ req'.kind # "known" /\ Goto("copy_write")
             /\ call' = [from |-> h, to |-> h, xlat |-> FALSE, buf |-> "main",
                         ret |-> "finish"]
    <3>1. pc' \in {"copy_write", "stopped"}
      BY <2>4 DEF Goto
    <3>2. Stage' \in {"finish", "stopped"}
      BY <2>4, <3>1 DEF Stage
    <3>3. call'.xlat = FALSE /\ call'.buf = "main" /\ call'.ret = "finish"
      BY <2>4
    <3> QED BY <2>1, <2>4, <3>1, <3>2, <3>3 DEF HeadsOK, CallsOK, ErrorsOK
  <2> QED BY <1>3, <2>2, <2>3, <2>4 DEF Analyse
<1>4. CASE Exit
  <2>1. pc' = "stopped" /\ err' = err /\ err = "OK"
    BY <1>4 DEF Exit, Stop, Jump, Goto, PathInv, ErrorsOK
  <2>2. Stage' = pc'
    BY <2>1 DEF Stage
  <2> QED BY <2>1, <2>2 DEF HeadsOK, CallsOK, ErrorsOK
<1> QED BY <1>1, <1>2, <1>3, <1>4 DEF Main

LEMMA PathChoose ==
  ASSUME StreamInv, PathInv, BufferInv, Choose
  PROVE  HeadsOK' /\ CallsOK' /\ ErrorsOK'
<1> USE DEF ConverterPoints, BuiltinPoints, IconvPoints, IconvLoop, RecodePoints,
            ExternPoints, ReturnPoints, Copying
<1>1. CASE TryConverter
  <2>1. pc = "try" /\ req.kind = "known" /\ err \in {"OK", "CANNOT"}
    BY <1>1 DEF TryConverter, PathInv, HeadsOK, ErrorsOK, Stage
  <2>2. todo # <<>> => Head(todo) \in Converters
    BY HeadTailProperties DEF StreamInv, TypeOK
  <2>3. CASE todo # <<>> /\ Jump(Head(todo), "OK")
    BY <2>1, <2>2, <2>3, PathJump DEF Converters
  <2>4. CASE todo = <<>> /\ h = Std /\ Call(h, h, FALSE, "main", "refuse")
    BY <2>1, <2>4, PathCall
  <2>5. CASE Jump("finish", "CANNOT")
    <3>1. pc' \in {"finish", "stopped"} /\ err' = "CANNOT" /\ req' = req
      BY <2>5, JumpFacts
    <3>2. Stage' = pc'
      BY <3>1 DEF Stage
    <3> QED BY <2>1, <3>1, <3>2 DEF HeadsOK, CallsOK, ErrorsOK
  <2> QED BY <1>1, <2>3, <2>4, <2>5 DEF TryConverter
<1>2. CASE Refuse
  <2>1. pc = "refuse" /\ req.kind = "known"
    BY <1>2 DEF Refuse, PathInv, HeadsOK, Stage
  <2>2. pc' \in {"finish", "stopped"} /\ err' = "CANNOT" /\ req' = req
    BY <1>2, JumpFacts DEF Refuse
  <2>3. Stage' = pc'
    BY <2>2 DEF Stage
  <2> QED BY <2>1, <2>2, <2>3 DEF HeadsOK, CallsOK, ErrorsOK
<1>3. CASE Returned
  <2>1. pc = "returned" /\ req.kind = "known" /\ todo # <<>>
    BY <1>3 DEF Returned, PathInv, HeadsOK, Stage, StreamInv, BeforeConverters, BetweenFiles
  <2>2. CASE \E e \in {"OK", "IOFAIL"} : Jump("finish", e)
    <3>1. pc' \in {"finish", "stopped"} /\ err' \in {"OK", "IOFAIL"}
          /\ UNCHANGED <<req, todo>>
      BY <2>2, JumpFacts
    <3>2. Stage' = pc'
      BY <3>1 DEF Stage
    <3> QED BY <2>1, <3>1, <3>2 DEF HeadsOK, CallsOK, ErrorsOK
  <2>3. CASE err = "CANNOT" /\ Goto("try") /\ UNCHANGED <<err, req>>
    <3>1. pc' \in {"try", "stopped"} /\ err' = "CANNOT" /\ req' = req
      BY <2>3 DEF Goto
    <3>2. Stage' = pc'
      BY <3>1 DEF Stage
    <3> QED BY <2>1, <3>1, <3>2 DEF HeadsOK, CallsOK, ErrorsOK
  <2> QED BY <1>3, <2>2, <2>3 DEF Returned
<1> QED BY <1>1, <1>2, <1>3 DEF Choose

LEMMA PathCopy ==
  ASSUME StreamInv, PathInv, BufferInv, Copy
  PROVE  HeadsOK' /\ CallsOK' /\ ErrorsOK'
<1> USE DEF ConverterPoints, BuiltinPoints, IconvPoints, IconvLoop, RecodePoints,
            ExternPoints, ReturnPoints, Copying
<1>1. /\ pc \in Copying /\ Stage = call.ret
      /\ err = "OK" \/ (err = "CANNOT" /\ call.ret = "refuse")
      /\ call.ret \in {"finish", "refuse", "returned", "ic_saved", "ex_saved",
                       "rc_done", "rd_free"}
  <2>1. pc \in Copying
    BY DEF Copy, CopyWrite, CopyRead, CopyFlushFails, Try
  <2> QED BY <2>1 DEF PathInv, ErrorsOK, Stage, StreamInv, CallOK
<1>2. CASE \E l \in Copying : Jump(l, err)
  <2>1. /\ pc' \in Copying \cup {"stopped"} /\ err' = err /\ h' = h
        /\ UNCHANGED <<setup, req, todo, call>>
    BY <1>2, JumpFacts
  <2>2. CASE pc' = "stopped"
    <3>1. Stage' = pc'
      BY <2>2 DEF Stage
    <3> QED BY <1>1, <2>1, <2>2, <3>1 DEF HeadsOK, CallsOK, ErrorsOK
  <2>3. CASE pc' \in Copying
    <3>1. Stage' = Stage
      BY <1>1, <2>1, <2>3 DEF Stage
    <3> QED BY <1>1, <2>1, <2>3, <3>1 DEF PathInv, HeadsOK, CallsOK, ErrorsOK
  <2> QED BY <2>1, <2>2, <2>3
<1>3. CASE \E e \in {"OK", "IOFAIL"} :
             /\ Jump(call.ret, e)
             /\ e = "IOFAIL" => "read" \in faults \/ "write" \in faults
  <2>1. PICK e \in {"OK", "IOFAIL"} :
             /\ Jump(call.ret, e)
             /\ e = "IOFAIL" => "read" \in faults \/ "write" \in faults
    BY <1>3
  <2>2. /\ pc' \in {call.ret, "stopped"} /\ err' = e /\ h' = h
        /\ UNCHANGED <<setup, req, todo, call>>
    BY <2>1, JumpFacts
  <2>3. Stage' = pc'
    BY <1>1, <2>2 DEF Stage
  <2>4. CASE pc' = "stopped"
    BY <2>2, <2>3, <2>4 DEF HeadsOK, CallsOK, ErrorsOK
  <2>5. CASE pc' = call.ret
    <3>1. HeadsOK'
      BY <1>1, <2>2, <2>3, <2>5 DEF PathInv, HeadsOK
    <3>2. CallsOK'
      BY <1>1, <2>2, <2>5 DEF CallsOK
    <3>3. ErrorsOK'
      <4>1. (pc' = "finish" /\ err' = "OK") => req'.kind # "known"
        BY <1>1, <2>2, <2>5 DEF PathInv, CallsOK
      <4>2. err' = "IOFAIL" => ("read" \in faults \/ "write" \in faults)'
        BY <2>1, <2>2 DEF faults
      <4> QED BY <1>1, <2>1, <2>2, <2>5, <4>1, <4>2 DEF ErrorsOK
    <3> QED BY <3>1, <3>2, <3>3
  <2> QED BY <2>2, <2>4, <2>5
<1> QED
  BY <1>2, <1>3 DEF Copy, CopyWrite, CopyRead, CopyFlushFails, Try, FileReadFails, FileWriteFails

LEMMA PathBuiltin ==
  ASSUME StreamInv, PathInv, BufferInv, BuiltinStep
  PROVE  HeadsOK' /\ CallsOK' /\ ErrorsOK'
<1> USE DEF ConverterPoints, BuiltinPoints, IconvPoints, IconvLoop, RecodePoints,
            ExternPoints, ReturnPoints, Copying
<1>1. /\ pc \in BuiltinPoints /\ Head(todo) = "builtin" /\ req.kind = "known"
      /\ pc # "builtin" => req.builtin = "xlat"
      /\ err = "OK"
  <2>1. pc \in BuiltinPoints
    BY DEF BuiltinStep, Builtin, BuiltinSeek, BuiltinRead, BuiltinSeekBack,
           BuiltinWrite, BuiltinSync, Try
  <2>2. Stage = pc
    BY <2>1 DEF Stage
  <2> QED BY <2>1, <2>2 DEF PathInv, HeadsOK, ErrorsOK
<1>2. CASE \E l \in {"bi_seek", "bi_read", "bi_back", "bi_write", "bi_sync"} :
             Jump(l, err) /\ (pc # "builtin" \/ req.builtin = "xlat")
  BY <1>1, <1>2, PathJump
<1>3. CASE \E e \in {"OK", "CANNOT", "IOFAIL"} : Jump("returned", e)
  BY <1>1, <1>3, PathJump
<1>4. CASE /\ h = Std /\ req.builtin # "cannot"
           /\ Call(h, h, req.builtin = "xlat", "main", "returned")
  <2> DEFINE x == req.builtin = "xlat"
  <2>1. x \in BOOLEAN /\ Call(h, h, x, "main", "returned")
    BY <1>4
  <2>2. x <=> req.builtin = "xlat"
    OBVIOUS
  <2> HIDE DEF x
  <2> QED BY <1>1, <1>4, <2>1, <2>2, PathCall
<1> QED
  BY <1>2, <1>3, <1>4
     DEF BuiltinStep, Builtin, BuiltinSeek, BuiltinRead, BuiltinSeekBack,
         BuiltinWrite, BuiltinSync, Try

LEMMA PathIconv ==
  ASSUME StreamInv, PathInv, BufferInv, IconvStep
  PROVE  HeadsOK' /\ CallsOK' /\ ErrorsOK'
<1> USE DEF ConverterPoints, BuiltinPoints, IconvPoints, IconvLoop, RecodePoints,
            ExternPoints, ReturnPoints, Copying
<1>1. /\ pc \in IconvPoints /\ Stage = pc
      /\ Head(todo) = "iconv" /\ req.kind = "known"
      /\ pc \notin ReturnPoints => err = "OK"
      /\ pc \in {"ic_saved", "rc_done"} => err \in {"OK", "IOFAIL"}
      /\ pc = "ic_free" => err \in {"OK", "IOFAIL", "MALFORM"}
  <2>1. pc \in IconvPoints
    BY DEF IconvStep, IconvStart, IconvDies, IconvTemp, IconvSave, IconvSaved,
         IconvRewind, IconvTruncate, IconvRead, IconvReadAborts, IconvCharacter,
         IconvFull, IconvBlockEnd, IconvWrite, IconvMalformed, Recover,
         RecoverSeekFrom, RecoverSeekTo, RecoverTruncate, RecoverDone,
         IconvFree, FreeTemp, Try
  <2>2. Stage = pc
    BY <2>1 DEF Stage
  <2> QED BY <2>1, <2>2 DEF PathInv, HeadsOK, ErrorsOK
<1>2. CASE \E l \in IconvPoints : Jump(l, "OK")
  BY <1>1, <1>2, PathJump
<1>3. CASE \E e : Jump("returned", e)
  BY <1>1, <1>3, PathJump
<1>4. CASE \E e \in {"OK", "IOFAIL", "MALFORM"} : Jump("ic_free", e)
  BY <1>1, <1>4, PathJump
<1>5. CASE \E e \in Errors : status' # "running" /\ err' = e /\ Stop
  <2>1. pc' = "stopped" /\ err' = err
    BY <1>5 DEF Stop, Jump, Goto
  <2>2. Stage' = pc'
    BY <2>1 DEF Stage
  <2> QED BY <2>1, <2>2 DEF HeadsOK, CallsOK, ErrorsOK
<1>6. CASE pc = "ic_save" /\ Call(h, Temp, FALSE, "main", "ic_saved")
  BY <1>1, <1>6, PathCall
<1>7. CASE pc = "rc_trunc" /\ Call(Temp, h, FALSE, "iconv", "rc_done")
  BY <1>1, <1>7, PathCall
<1>8. CASE /\ pc \in {"ic_read", "ic_conv"}
           /\ pc' \in {"ic_free", "ic_conv", "ic_full", "stopped"}
           /\ err' = err \/ (pc' \in {"ic_free", "stopped"} /\ err' = "IOFAIL")
           /\ h' = h /\ UNCHANGED <<setup, req, todo, call>>
  <2>1. Stage' = pc'
    BY <1>8 DEF Stage
  <2> QED BY <1>1, <1>8, <2>1 DEF PathInv, HeadsOK, CallsOK, ErrorsOK
<1>9. CASE IconvStart \/ IconvFree
  <2>1. pc = "iconv" => err = "OK"
    BY <1>1
  <2> QED BY <1>2, <1>3, <1>9, <2>1 DEF IconvStart, IconvFree, FreeTemp
<1>10. CASE IconvDies \/ IconvReadAborts
  <2>1. err \in Errors
    BY DEF StreamInv, TypeOK
  <2> QED BY <1>5, <1>10, <2>1 DEF IconvDies, IconvReadAborts, Stop, Jump
<1>11. CASE IconvTemp
  <2>1. pc = "ic_temp" /\ err = "OK"
    BY <1>1, <1>11 DEF IconvTemp, Try
  <2>2. CASE FileTemporaryExits /\ Stop
    BY <1>5, <2>1, <2>2 DEF FileTemporaryExits, Stop, Jump, Errors
  <2> QED BY <1>2, <1>4, <1>11, <2>1, <2>2 DEF IconvTemp, Try
<1>12. CASE IconvSave \/ IconvSaved \/ IconvRewind \/ IconvTruncate
  <2>1. pc \in {"ic_save", "ic_saved", "ic_rewind", "ic_trunc"}
        /\ (pc # "ic_saved" => err = "OK")
    BY <1>1, <1>12 DEF IconvSave, IconvSaved, IconvRewind, IconvTruncate, Try
  <2> QED
    BY <1>2, <1>4, <1>6, <1>12, <2>1 DEF IconvSave, IconvSaved, IconvRewind, IconvTruncate, Try
<1>13. CASE IconvRead \/ IconvCharacter
  <2>1. \/ pc = "ic_read" /\ Jump("ic_free", "IOFAIL")
        \/ /\ pc \in {"ic_read", "ic_conv"}
           /\ pc' \in {"ic_free", "ic_conv", "ic_full", "stopped"}
           /\ err' = err \/ (pc' \in {"ic_free", "stopped"} /\ err' = "IOFAIL")
           /\ UNCHANGED <<setup, cur, req, todo, call>>
    BY <1>13 DEF IconvRead, IconvCharacter, Goto
  <2> QED BY <1>4, <1>8, <2>1 DEF h
<1>14. CASE IconvFull \/ IconvBlockEnd \/ IconvWrite \/ IconvMalformed
  <2>1. err = "OK"
    BY <1>1, <1>14 DEF IconvFull, IconvBlockEnd, IconvWrite, IconvMalformed, Try
  <2> QED
    BY <1>2, <1>4, <1>14, <2>1
       DEF IconvFull, IconvBlockEnd, IconvWrite, IconvMalformed, Try
<1>15. CASE Recover
  <2>1. pc \in {"rc_from", "rc_to", "rc_trunc", "rc_done"} /\ (pc # "rc_done" => err = "OK")
    BY <1>1, <1>15 DEF Recover, RecoverSeekFrom, RecoverSeekTo, RecoverTruncate, RecoverDone, Try
  <2> QED
    BY <1>2, <1>4, <1>7, <1>15, <2>1
       DEF Recover, RecoverSeekFrom, RecoverSeekTo, RecoverTruncate, RecoverDone, Try
<1> QED
  BY <1>9, <1>10, <1>11, <1>12, <1>13, <1>14, <1>15 DEF IconvStep

LEMMA PathRecode ==
  ASSUME StreamInv, PathInv, BufferInv, RecodeStep
  PROVE  HeadsOK' /\ CallsOK' /\ ErrorsOK'
<1> USE DEF ConverterPoints, BuiltinPoints, IconvPoints, IconvLoop, RecodePoints,
            ExternPoints, ReturnPoints, Copying
<1>1. /\ pc \in RecodePoints /\ Stage = pc
      /\ Head(todo) = "recode" /\ req.kind = "known"
      /\ pc # "rd_free" => err = "OK"
      /\ pc = "rd_free" => err \in {"OK", "IOFAIL"}
      /\ pc \in {"rs_first", "rs_rest"} => h = Std
  <2>1. pc \in RecodePoints
    BY DEF RecodeStep, RecodeStart, RecodeNoLibrary, RecodeTemp, RecodeSeek,
         RecodeTask, RecodeRewindFile, RecodeRewindTemp, RecodeTruncate,
         RecodeFree, RecodeBuffer, RecodeRest, RecodeSystemError, FreeTemp, Try
  <2>2. Stage = pc
    BY <2>1 DEF Stage
  <2> QED BY <2>1, <2>2 DEF PathInv, HeadsOK, ErrorsOK
<1>2. CASE \E l \in RecodePoints \ {"rs_first", "rs_rest"} : Jump(l, "OK")
  BY <1>1, <1>2, PathJump
<1>3. CASE \E e \in {"OK", "CANNOT", "IOFAIL", "LIBCOM"} : Jump("returned", e)
  BY <1>1, <1>3, PathJump
<1>4. CASE Jump("rd_free", "IOFAIL")
  BY <1>1, <1>4, PathJump
<1>5. CASE status' # "running" /\ Stop
  <2>1. pc' = "stopped" /\ err' = err
    BY <1>5 DEF Stop, Jump, Goto
  <2>2. Stage' = pc'
    BY <2>1 DEF Stage
  <2> QED BY <1>1, <2>1, <2>2 DEF HeadsOK, CallsOK, ErrorsOK
<1>6. CASE pc = "rd_trunc" /\ Call(Temp, h, FALSE, "main", "rd_free")
  BY <1>1, <1>6, PathCall
<1>7. CASE h = Std /\ Jump("rs_first", "OK")
  BY <1>1, <1>7, PathJump
<1>8. CASE RecodeBuffer \/ RecodeRest
  <2>1. /\ pc' \in {"rs_rest", "returned", "stopped"}
        /\ pc' = "rs_rest" => err' = err
        /\ err' \in {err, "OK", "IOFAIL"}
        /\ UNCHANGED <<setup, cur, req, todo, call>> /\ pc \in {"rs_first", "rs_rest"}
    BY <1>8 DEF RecodeBuffer, RecodeRest, RecodeToStdout, Goto
  <2>2. Stage' = pc' /\ h' = h
    BY <2>1 DEF Stage, h
  <2> QED BY <1>1, <2>1, <2>2 DEF PathInv, HeadsOK, CallsOK, ErrorsOK
<1>9. CASE RecodeTemp
  BY <1>1, <1>2, <1>4, <1>5, <1>9 DEF RecodeTemp, FileTemporaryExits, Try
<1>10. CASE RecodeFree
  BY <1>1, <1>3, <1>10 DEF RecodeFree, FreeTemp
<1> QED
  BY <1>1, <1>2, <1>3, <1>4, <1>6, <1>7, <1>8, <1>9, <1>10
     DEF RecodeStep, RecodeStart, RecodeNoLibrary, RecodeSeek,
         RecodeTask, RecodeRewindFile, RecodeRewindTemp, RecodeTruncate,
         RecodeSystemError, Try

LEMMA PathExtern ==
  ASSUME StreamInv, PathInv, BufferInv, ExternStep
  PROVE  HeadsOK' /\ CallsOK' /\ ErrorsOK'
<1> USE DEF ConverterPoints, BuiltinPoints, IconvPoints, IconvLoop, RecodePoints,
            ExternPoints, ReturnPoints, Copying
<1>1. /\ pc \in ExternPoints /\ Stage = pc
      /\ Head(todo) = "extern" /\ req.kind = "known"
      /\ pc \notin {"ex_saved", "ex_free"} => err = "OK"
      /\ pc = "ex_saved" => err \in {"OK", "IOFAIL"}
      /\ pc = "ex_free" => err \in {"OK", "IOFAIL", "CANNOT", "EXEC"}
      /\ pc \in {"ex_temp", "ex_saved", "ex_free"} => h = Std
  <2>1. pc \in ExternPoints
    BY DEF ExternStep, ExternStart, ExternTemp, ExternSaved, ExternRun,
           ExternDies, ExternFree
  <2>2. Stage = pc
    BY <2>1 DEF Stage
  <2> QED BY <2>1, <2>2 DEF PathInv, HeadsOK, ErrorsOK
<1>2. CASE Jump("ex_run", "OK") \/ (h = Std /\ Jump("ex_temp", "OK"))
  BY <1>1, <1>2, PathJump
<1>3. CASE \E e \in {"OK", "CANNOT", "IOFAIL", "EXEC"} : Jump("returned", e)
  BY <1>1, <1>3, PathJump
<1>4. CASE h = Std /\ \E e \in {"OK", "CANNOT", "IOFAIL", "EXEC"} : Jump("ex_free", e)
  BY <1>1, <1>4, PathJump
<1>5. CASE status' # "running" /\ Stop /\ pc \notin {"ex_saved", "ex_free"}
  <2>1. pc' = "stopped" /\ err' = err
    BY <1>5 DEF Stop, Jump, Goto
  <2>2. Stage' = pc'
    BY <2>1 DEF Stage
  <2> QED BY <1>1, <1>5, <2>1, <2>2 DEF HeadsOK, CallsOK, ErrorsOK
<1>6. CASE pc = "ex_temp" /\ Call(h, Temp, FALSE, "main", "ex_saved")
  BY <1>1, <1>6, PathCall
<1>7. CASE ExternRun
  <2>1. \E e \in {"OK", "CANNOT", "EXEC"} :
          Jump(IF h = Std THEN "ex_free" ELSE "returned", e)
    BY <1>7 DEF ExternRun
  <2> QED BY <1>3, <1>4, <2>1
<1>8. CASE ExternTemp
  BY <1>1, <1>3, <1>5, <1>6, <1>8 DEF ExternTemp, FileTemporaryExits
<1> QED
  BY <1>1, <1>2, <1>3, <1>4, <1>5, <1>7, <1>8
     DEF ExternStep, ExternStart, ExternSaved, ExternDies, ExternFree
-----------------------------------------------------------------------------
(* The program takes no step once it has stopped, and those of main() and   *)
(* of the end of process_file() are three.                                  *)
LEMMA StepPoints ==
  ASSUME Next
  PROVE  /\ pc # "stopped"
         /\ pc \in {"main", "finish"} => OpenFile \/ FinishFile \/ Exit
BY DEF Next, Main, OpenFile, ReadSample, Analyse, FinishFile, Exit, Choose,
       TryConverter, Refuse, Returned, Copy, CopyWrite, CopyRead, CopyFlushFails,
       BuiltinStep, Builtin, BuiltinSeek, BuiltinRead, BuiltinSeekBack,
       BuiltinWrite, BuiltinSync, IconvStep, IconvStart, IconvDies, IconvTemp,
       IconvSave, IconvSaved, IconvRewind, IconvTruncate, IconvRead,
       IconvReadAborts, IconvCharacter, IconvFull, IconvBlockEnd, IconvWrite,
       IconvMalformed, IconvFree, FreeTemp, Recover, RecoverSeekFrom,
       RecoverSeekTo, RecoverTruncate, RecoverDone, RecodeStep, RecodeStart,
       RecodeNoLibrary, RecodeTemp, RecodeSeek, RecodeTask, RecodeRewindFile,
       RecodeRewindTemp, RecodeTruncate, RecodeFree, RecodeBuffer, RecodeRest,
       RecodeSystemError, ExternStep, ExternStart, ExternTemp, ExternSaved,
       ExternRun, ExternDies, ExternFree, Try
-----------------------------------------------------------------------------
(* A step within a file: its place in the list, the reports made and the    *)
(* objects of the other files stay; the program goes on or ends in trouble. *)
InFile ==
  /\ UNCHANGED <<setup, orig, cur, fsize, done>>
  /\ pc' # "main" /\ (pc' = "stopped" <=> status' # "running")
  /\ status' \in {status, "trouble", "aborted"}
NearObjects == {Source(h), Sink(h), Temp}
FarKept == \A o \in Objects \ NearObjects : obj'[o] = obj[o]

LEMMA StepInFile ==
  ASSUME StreamInv, BufferInv, status = "running", Next, pc \notin {"main", "finish"}
  PROVE  InFile
<1> USE DEF InFile, ctlrest, Goto, Jump, Stop, Call, Try, FileClose
<1>0. pc \in {"copy_write", "copy_read"} => call.ret \notin {"main", "stopped"}
  BY AtCopy DEF ReturnPoints
<1>0a. todo # <<>> => Head(todo) \in Converters
  BY HeadTailProperties DEF StreamInv, TypeOK
<1>1. CASE Main
  BY <1>1 DEF Main, OpenFile, ReadSample, Analyse, FinishFile, Exit, FileRead,
     FileReadFails, fbvars
<1>2. CASE Choose
  BY <1>0a, <1>2 DEF Choose, TryConverter, Refuse, Returned, fbvars, Converters
<1>3. CASE Copy
  BY <1>0, <1>3 DEF Copy, CopyWrite, CopyRead, CopyFlushFails, FileRead, FileReadFails,
     FileWrite, FileWriteFails, FlushLoses
<1>4. CASE BuiltinStep
  BY <1>4
     DEF BuiltinStep, Builtin, BuiltinSeek, BuiltinRead, BuiltinSeekBack,
         BuiltinWrite, BuiltinSync, FileRead, FileReadFails,
         FileWrite, FileWriteFails, FileSeek, FileSeekFails, fbvars
<1>5. CASE IconvStep
  BY <1>5
     DEF IconvStep, IconvStart, IconvDies, IconvTemp, IconvSave, IconvSaved,
         IconvRewind, IconvTruncate, IconvRead, IconvReadAborts, IconvCharacter, IconvFull,
         IconvBlockEnd, IconvWrite, IconvMalformed, IconvFree, FreeTemp,
         Recover, RecoverSeekFrom, RecoverSeekTo, RecoverTruncate, RecoverDone,
         FileRead, FileReadFails, FileWrite, FileWriteFails, FileSeek, FileSeekFails,
         FileTruncate, FileTruncateFails, FileTemporary, FileTemporaryFails,
         FileTemporaryExits, fbvars
<1>6. CASE RecodeStep
  BY <1>6
     DEF RecodeStep, RecodeStart, RecodeNoLibrary, RecodeTemp, RecodeSeek,
         RecodeTask, RecodeRewindFile, RecodeRewindTemp, RecodeTruncate, RecodeFree,
         FreeTemp, RecodeToStdout, RecodeBuffer, RecodeRest, RecodeSystemError,
         FileSeek, FileSeekFails, FileTruncate, FileTruncateFails, FileTemporary,
         FileTemporaryFails, FileTemporaryExits, fbvars
<1>7. CASE ExternStep
  BY <1>7
     DEF ExternStep, ExternStart, ExternTemp, ExternSaved, ExternRun,
         ExternDies, ExternFree, FileTemporary, FileTemporaryFails,
         FileTemporaryExits, fbvars
<1> QED BY <1>1, <1>2, <1>3, <1>4, <1>5, <1>6, <1>7 DEF Next

LEMMA StepFar ==
  ASSUME StreamInv, PathInv, BufferInv, Next, pc # "main"
  PROVE  FarKept
<1> USE DEF FarKept, NearObjects, Try
<1>0. /\ h \in Files \cup {Std} /\ (h # Std => Source(h) = h /\ Sink(h) = h)
      /\ (h = Std => Source(h) = "stdin" /\ Sink(h) = "stdout")
      /\ Source(Temp) = Temp /\ Sink(Temp) = Temp
      /\ pc \in NamedOnly => h # Std
  <2>1. pc # "stopped"
    BY StepPoints
  <2> QED BY <2>1, AtPlace, CurrentHandle DEF Source, Sink, Std, Temp
<1>0a. obj \in [Objects -> Stream]
  BY DEF BufferInv, StoreOK, ObjectsOK
<1>0b. pc \in {"copy_write", "copy_read"} =>
         /\ Source(call.from) \in NearObjects /\ Sink(call.to) \in NearObjects
         /\ call.to = Std => h = Std
  BY <1>0 DEF StreamInv, CallOK, Std, Temp
<1>1. CASE Main
  BY <1>0, <1>0a, <1>1 DEF Main, OpenFile, ReadSample, Analyse, FinishFile, Exit, FileRead,
     FileReadFails, fbvars
<1>2. CASE Choose
  BY <1>2 DEF Choose, TryConverter, Refuse, Returned, fbvars
<1>3. CASE Copy
  BY <1>0, <1>0a, <1>0b, <1>3 DEF Copy, CopyWrite, CopyRead, CopyFlushFails, FileRead,
     FileReadFails, FileWrite, FileWriteFails, FlushLoses
<1>4. CASE BuiltinStep
  BY <1>0, <1>0a, <1>4
     DEF BuiltinStep, Builtin, BuiltinSeek, BuiltinRead, BuiltinSeekBack,
         BuiltinWrite, BuiltinSync, FileRead, FileReadFails,
         FileWrite, FileWriteFails, FileSeek, FileSeekFails, fbvars, NamedOnly
<1>5. CASE IconvStep
  BY <1>0, <1>0a, <1>5
     DEF IconvStep, IconvStart, IconvDies, IconvTemp, IconvSave, IconvSaved,
         IconvRewind, IconvTruncate, IconvRead, IconvReadAborts, IconvCharacter, IconvFull,
         IconvBlockEnd, IconvWrite, IconvMalformed, IconvFree, FreeTemp,
         Recover, RecoverSeekFrom, RecoverSeekTo, RecoverTruncate, RecoverDone,
         FileRead, FileReadFails, FileWrite, FileWriteFails, FileSeek, FileSeekFails,
         FileTruncate, FileTruncateFails, FileTemporary, FileTemporaryFails,
         FileTemporaryExits, fbvars, NamedOnly
<1>6. CASE RecodeStep
  <2>1. CASE RecodeTask
    BY <1>0, <1>0a, <2>1 DEF RecodeTask, NamedOnly
  <2>2. CASE RecodeBuffer \/ RecodeRest
    <3>1. h = Std
      BY <2>2 DEF RecodeBuffer, RecodeRest, PathInv, HeadsOK, Stage, Copying
    <3> QED BY <1>0, <1>0a, <2>2, <3>1 DEF RecodeBuffer, RecodeRest, RecodeToStdout
  <2>3. CASE ~(RecodeTask \/ RecodeBuffer \/ RecodeRest)
    BY <1>0, <1>0a, <1>6, <2>3
     DEF RecodeStep, RecodeStart, RecodeNoLibrary, RecodeTemp, RecodeSeek,
         RecodeRewindFile, RecodeRewindTemp, RecodeTruncate, RecodeFree,
         FreeTemp, RecodeSystemError,
         FileSeek, FileSeekFails, FileTruncate, FileTruncateFails, FileTemporary,
         FileTemporaryFails, FileTemporaryExits, fbvars, NamedOnly
  <2> QED BY <2>1, <2>2, <2>3
<1>7. CASE ExternStep
  BY <1>0, <1>0a, <1>7
     DEF ExternStep, ExternStart, ExternTemp, ExternSaved, ExternRun,
         ExternDies, ExternFree, FileTemporary, FileTemporaryFails,
         FileTemporaryExits, fbvars
<1> QED BY <1>1, <1>2, <1>3, <1>4, <1>5, <1>6, <1>7 DEF Next

(* The list of converters only shrinks, but for a new file. *)
LEMMA StepList ==
  ASSUME [Next]_vars
  PROVE  /\ \/ todo' = todo \/ todo' = setup.convs
            \/ pc = "returned" /\ todo' = Tail(todo)
         /\ req' = req \/ req'.kind # "known" \/ req' \in Answers
<1> USE DEF ctlrest, Goto, Jump, Stop, Call, Try, Report
<1>1. CASE Main
  BY <1>1 DEF Main, OpenFile, ReadSample, Analyse, FinishFile, Exit
<1>2. CASE Choose
  BY <1>2 DEF Choose, TryConverter, Refuse, Returned
<1>3. CASE Copy
  BY <1>3 DEF Copy, CopyWrite, CopyRead, CopyFlushFails
<1>4. CASE BuiltinStep
  BY <1>4
     DEF BuiltinStep, Builtin, BuiltinSeek, BuiltinRead, BuiltinSeekBack,
         BuiltinWrite, BuiltinSync
<1>5. CASE IconvStep
  BY <1>5
     DEF IconvStep, IconvStart, IconvDies, IconvTemp, IconvSave, IconvSaved,
         IconvRewind, IconvTruncate, IconvRead, IconvReadAborts, IconvCharacter, IconvFull,
         IconvBlockEnd, IconvWrite, IconvMalformed, IconvFree, FreeTemp,
         Recover, RecoverSeekFrom, RecoverSeekTo, RecoverTruncate, RecoverDone
<1>6. CASE RecodeStep
  BY <1>6
     DEF RecodeStep, RecodeStart, RecodeNoLibrary, RecodeTemp, RecodeSeek,
         RecodeTask, RecodeRewindFile, RecodeRewindTemp, RecodeTruncate, RecodeFree,
         FreeTemp, RecodeToStdout, RecodeBuffer, RecodeRest, RecodeSystemError
<1>7. CASE ExternStep
  BY <1>7
     DEF ExternStep, ExternStart, ExternTemp, ExternSaved, ExternRun,
         ExternDies, ExternFree
<1>8. CASE UNCHANGED vars
  BY <1>8 DEF vars, fbvars, ctlvars
<1> QED BY <1>1, <1>2, <1>3, <1>4, <1>5, <1>6, <1>7, <1>8 DEF Next

LEMMA StepTodo ==
  ASSUME StreamInv, PathInv, [Next]_vars PROVE TodoOK'
<1>1. setup' = setup
  BY SetupFixed
<1>2. TodoOK
  BY DEF PathInv
<1>a. req'.kind = "known" => req'.builtin \in {"cannot", "identity", "xlat"}
  BY <1>2, StepList DEF TodoOK, Answers
<1>3. CASE todo' = todo
  BY <1>1, <1>2, <1>a, <1>3 DEF TodoOK, Listed, ExternLast
<1>4. CASE todo' = setup.convs
  BY <1>1, <1>a, <1>4 DEF TodoOK, Listed, ExternLast
<1>5. CASE pc = "returned" /\ todo' = Tail(todo)
  <2>1. todo \in Seq(Converters) /\ todo # <<>>
    BY <1>5 DEF StreamInv, TypeOK, BeforeConverters, BetweenFiles
  <2>2. /\ Len(todo') = Len(todo) - 1 /\ DOMAIN todo' = 1 .. Len(todo) - 1
        /\ DOMAIN todo = 1 .. Len(todo) /\ Len(todo) \in Nat
        /\ \A i \in 1 .. Len(todo) - 1 : todo'[i] = todo[i + 1]
    BY <1>5, <2>1
  <2>3. \A i \in 1 .. Len(todo) - 1 :
          Listed(todo[i + 1]) /\ (ExternLast /\ todo[i + 1] = "extern" => i + 1 = Len(todo))
    BY <1>2, <2>2 DEF TodoOK
  <2> QED BY <1>1, <1>a, <2>2, <2>3 DEF TodoOK, Listed, ExternLast
<1> QED BY <1>3, <1>4, <1>5, StepList

(* FinishFile names the converter that is at the head of the list. *)
LEMMA ByType == ASSUME StreamInv PROVE By \in Converters \cup {"none"}
<1>1. todo # <<>> => Head(todo) \in Converters
  BY HeadTailProperties DEF StreamInv, TypeOK
<1> QED BY <1>1 DEF By

LEMMA StepReport ==
  ASSUME StreamInv, PathInv, NEW code \in ExitCodes,
         NEW by \in Converters \cup {"none"},
         Report(code, by), status' \in {"running", "trouble"}
  PROVE  CountsOK'
<1> DEFINE D == [code : ExitCodes, by : Converters \cup {"none"}]
           d == [code |-> code, by |-> by]
<1>1. done \in Seq(D) /\ Len(done) = cur - 1 /\ cur \in Nat /\ d \in D
  BY DEF PathInv, CountsOK, StreamInv, TypeOK
<1> HIDE DEF D, d
<1>2. Append(done, d) \in Seq(D) /\ Len(Append(done, d)) = cur
  BY <1>1
<1>3. done' \in Seq(D) /\ Len(done') = cur' - 1
  BY <1>1, <1>2 DEF Report, d
<1> QED BY <1>3 DEF CountsOK, Report, Goto, D

LEMMA StepCounts ==
  ASSUME StreamInv, PathInv, BufferInv, [Next]_vars PROVE CountsOK'
<1>0. CountsOK
  BY DEF PathInv
<1>1. CASE UNCHANGED vars
  BY <1>0, <1>1 DEF CountsOK, Clean, vars, fbvars, ctlvars
<1>2. CASE Next /\ pc \notin {"main", "finish"}
  <2>1. status = "running"
    <3>1. pc # "stopped"
      BY <1>2, StepPoints
    <3> QED BY <1>0, <3>1 DEF CountsOK
  <2>2. InFile
    BY <1>2, <2>1, StepInFile
  <2> QED BY <1>0, <2>1, <2>2 DEF CountsOK, InFile
<1>3. CASE Next /\ pc \in {"main", "finish"}
  <2>0. status = "running"
    BY <1>0, <1>3 DEF CountsOK
  <2>1. OpenFile \/ FinishFile \/ Exit
    BY <1>3, StepPoints
  <2>2. CASE OpenFile /\ Goto("sample") /\ UNCHANGED <<setup, err, cur, done>> /\ FileOpen(h)
    BY <1>0, <2>0, <2>2 DEF CountsOK, FileOpen, Goto
  <2>3. CASE FileOpenFails(h) /\ Report("trouble", "none")
    BY <2>0, <2>3, StepReport DEF FileOpenFails, ExitCodes
  <2>4. CASE FinishFile
    <3>1. PICK code \in ExitCodes : Report(code, By)
      BY <2>4 DEF FinishFile, By, ExitCodes
    <3>2. status' \in {"running", "trouble"}
      BY <2>0, <2>4 DEF FinishFile, FileClose
    <3> QED BY <3>1, <3>2, ByType, StepReport
  <2>5. CASE Exit
    <3>1. /\ status' = ExitStatus({done[i].code : i \in DOMAIN done})
          /\ UNCHANGED <<setup, cur, done, err>> /\ cur > Len(setup.args) /\ pc = "main"
          /\ status' \in ExitCodes /\ pc' = "stopped"
      BY <2>5 DEF Exit, Stop, Jump, ctlrest, ExitStatus, ExitCodes, Goto
    <3>2. status' \in {"success", "failure"} => Clean
      BY <3>1 DEF ExitStatus, Clean
    <3>3. err = "OK"
      BY <3>1 DEF PathInv, ErrorsOK
    <3> QED BY <1>0, <3>1, <3>2, <3>3 DEF CountsOK, Clean, ExitCodes
  <2> QED BY <2>1, <2>2, <2>3, <2>4, <2>5 DEF OpenFile
<1> QED BY <1>1, <1>2, <1>3

LEMMA StepPath == StreamInv /\ BufferInv /\ PathInv /\ [Next]_vars => PathInv'
<1> SUFFICES ASSUME StreamInv, BufferInv, PathInv, [Next]_vars PROVE PathInv'
  OBVIOUS
<1>1. TodoOK' /\ CountsOK'
  BY StepTodo, StepCounts
<1>2. CASE Next
  BY <1>1, <1>2, PathMain, PathChoose, PathCopy, PathBuiltin, PathIconv, PathRecode,
     PathExtern DEF Next, PathInv
<1>3. CASE UNCHANGED vars
  <2>1. h' = h /\ UNCHANGED <<pc, err, call, todo, req, setup>>
    BY <1>3 DEF vars, fbvars, ctlvars, h
  <2>2. HeadsOK'
    BY <2>1 DEF PathInv, HeadsOK, Stage
  <2>3. CallsOK'
    BY <2>1 DEF PathInv, CallsOK
  <2>4. ErrorsOK'
    BY <2>1 DEF PathInv, ErrorsOK, faults
  <2> QED BY <1>1, <2>2, <2>3, <2>4 DEF PathInv
<1> QED BY <1>2, <1>3
-----------------------------------------------------------------------------
(* The other files of a list without repetitions.                           *)
LEMMA OtherFile ==
  ASSUME StreamInv, Distinct, NEW i \in DOMAIN setup.args, i # cur,
         cur <= Len(setup.args)
  PROVE  /\ setup.args[i] \in Files \cup {Std} /\ setup.args[i] # h
         /\ Source(setup.args[i]) \in Objects \ NearObjects
         /\ Sink(setup.args[i]) \in Objects \ NearObjects
<1>1. setup.args \in Seq(Files \cup {Std}) /\ cur \in 1 .. Len(setup.args)
  BY ConvertAssumption DEF StreamInv, TypeOK, Setups
<1>2. setup.args[i] # h /\ setup.args[i] \in Files \cup {Std} /\ h \in Files \cup {Std}
  BY <1>1 DEF Distinct, h
<1> QED
  BY <1>2, FilebufAssumption DEF Source, Sink, Objects, NearObjects, Std, Temp

(* The end of process_file() and main() touch no file. *)
LEMMA StepOutside ==
  ASSUME StreamInv, BufferInv, OpenFile \/ FinishFile \/ Exit
  PROVE  /\ UNCHANGED <<setup, orig>> /\ cur' >= cur
         /\ pc' = "main" => cur' > cur
         /\ \A o \in Objects : obj'[o].data = obj[o].data
         /\ obj'["stdin"] = obj["stdin"] /\ obj'["stdout"] = obj["stdout"]
<1>1. cur \in Nat /\ obj \in [Objects -> Stream]
  BY DEF StreamInv, TypeOK, BufferInv, StoreOK, ObjectsOK
<1>2. CASE FinishFile \/ Exit
  BY <1>1, <1>2 DEF FinishFile, Exit, Stop, Jump, ctlrest, Goto, Report, ExitStatus
<1>3. CASE OpenFile
  <2>1. CASE FileOpenFails(h) /\ Report("trouble", "none")
    BY <1>1, <2>1 DEF FileOpenFails, Report, Goto
  <2>2. CASE FileOpen(h) /\ Goto("sample") /\ UNCHANGED <<setup, orig, cur>> /\ pc = "main"
             /\ cur <= Len(setup.args)
    <3>1. h \in Files \cup {Std} /\ h \notin {"stdin", "stdout"}
      BY <2>2, MainHandle, FilebufAssumption DEF Std
    <3>2. obj' = obj \/ (h \in Files /\ obj' = [obj EXCEPT ![h].pos = 0])
      BY <2>2, <3>1 DEF FileOpen
    <3>3. h \in Files => h \in Objects
      BY DEF Objects
    <3> QED BY <1>1, <2>2, <3>1, <3>2, <3>3 DEF Goto, Objects, Stream
  <2> QED BY <1>3, <2>1, <2>2 DEF OpenFile
<1> QED BY <1>2, <1>3

LEMMA StepWhere ==
  ASSUME StreamInv, PathInv, BufferInv, Next, pc \notin {"main", "finish"}
  PROVE  InFile /\ FarKept /\ cur \in 1 .. Len(setup.args)
<1>1. pc # "stopped"
  BY StepPoints
<1>2. status = "running"
  BY <1>1 DEF PathInv, CountsOK
<1> QED BY <1>1, <1>2, StepInFile, StepFar, CurrentHandle

LEMMA StepAhead ==
  ASSUME StreamInv, PathInv, BufferInv, Distinct, AheadOK, [Next]_vars
  PROVE  AheadOK'
<1>1. CASE UNCHANGED vars
  BY <1>1 DEF AheadOK, Untaken, vars, fbvars, ctlvars
<1>2. CASE Next /\ pc \in {"main", "finish"}
  <2>1. /\ UNCHANGED <<setup, orig>> /\ cur' >= cur
        /\ pc' = "main" => cur' > cur
        /\ \A o \in Objects : obj'[o].data = obj[o].data
        /\ obj'["stdin"] = obj["stdin"] /\ obj'["stdout"] = obj["stdout"]
    BY <1>2, StepPoints, StepOutside
  <2> SUFFICES ASSUME NEW i \in DOMAIN setup.args,
                      i > cur' \/ (i = cur' /\ pc' = "main")
               PROVE  Untaken(setup.args[i])'
    BY <2>1 DEF AheadOK
  <2>2. setup.args \in Seq(Files \cup {Std}) /\ i \in 1 .. Len(setup.args)
        /\ cur \in Nat /\ cur' \in Nat
    <3>1. StreamInv'
      BY StepStream, <1>2
    <3> QED BY <3>1, <2>1, ConvertAssumption DEF StreamInv, TypeOK, Setups
  <2>3. i > cur
    BY <2>1, <2>2
  <2>4. Untaken(setup.args[i]) /\ Source(setup.args[i]) \in Objects
    BY <2>2, <2>3, Places DEF AheadOK, Handles
  <2> QED BY <2>1, <2>4 DEF Untaken
<1>3. CASE Next /\ pc \notin {"main", "finish"}
  <2>1. InFile /\ FarKept /\ cur \in 1 .. Len(setup.args)
    BY <1>3, StepWhere
  <2> SUFFICES ASSUME NEW i \in DOMAIN setup.args, i > cur
               PROVE  Untaken(setup.args[i])'
    BY <2>1 DEF AheadOK, InFile
  <2>2. Untaken(setup.args[i]) /\ cur <= Len(setup.args) /\ i # cur
    BY <2>1 DEF AheadOK
  <2>3. /\ Source(setup.args[i]) \in Objects \ NearObjects
        /\ Sink(setup.args[i]) \in Objects \ NearObjects
    BY <2>2, OtherFile
  <2> QED BY <2>1, <2>2, <2>3 DEF Untaken, FarKept, InFile, Source, Sink
<1> QED BY <1>1, <1>2, <1>3

(* What FinishFile reports of a file is so. *)
LEMMA DoneFinish ==
  ASSUME StreamInv, PathInv, BufferInv, Orderly, MainOK, DoneOK, FinishFile
  PROVE  DoneOK'
<1> DEFINE unknown == req.kind = "unknown"
           code == IF (err = "OK" /\ unknown) \/ err = "CANNOT" THEN "failure"
                   ELSE IF err = "OK" THEN "success" ELSE "trouble"
           d == [code |-> code, by |-> By]
<1>1. /\ Report(code, By) /\ pc = "finish"
      /\ UNCHANGED <<setup, orig, obj>>
  BY DEF FinishFile, By, Report
<1>2. done \in Seq([code : ExitCodes, by : Converters \cup {"none"}]) /\ Len(done) = cur - 1
      /\ cur \in 1 .. Len(setup.args)
  BY <1>1, CurrentHandle DEF PathInv, CountsOK
<1>3. CASE status' # "running"
  <2>1. done' = done
    BY <1>1, <1>3 DEF Report
  <2> QED BY <1>1, <2>1 DEF DoneOK, Clean, Listed, CopyWorked, faults, Converted, Untouched, Contains
<1>4. CASE status' = "running"
  <2>1. done' = Append(done, d)
    BY <1>1, <1>4 DEF Report
  <2>a. d.code = code /\ d.by = By
    OBVIOUS
  <2> HIDE DEF d
  <2>2. /\ DOMAIN done' = 1 .. cur /\ DOMAIN done = 1 .. cur - 1
        /\ done'[cur] = d
        /\ \A i \in 1 .. cur - 1 : done'[i] = done[i]
    BY <1>2, <2>1
  <2> SUFFICES ASSUME Clean'
               PROVE  \A i \in DOMAIN done' :
                        LET f == setup.args[i]
                        IN /\ done'[i].code = "success" /\ ~(done'[i].by = "recode" /\ f = Std)
                                => obj[Sink(f)].data = Expected(done'[i].by, orig[f])
                           /\ done'[i].code = "failure" /\ ~Listed("extern") /\ CopyWorked(f)
                                => obj[Sink(f)].data = orig[f]
    BY <1>1 DEF DoneOK, Listed, CopyWorked, faults, Converted, Untouched, Contains
  <2>3. Clean /\ code # "trouble"
    BY <1>2, <2>2, <2>a DEF Clean
  <2> SUFFICES ASSUME NEW i \in 1 .. cur
               PROVE LET f == setup.args[i]
                     IN /\ done'[i].code = "success" /\ ~(done'[i].by = "recode" /\ f = Std)
                             => obj[Sink(f)].data = Expected(done'[i].by, orig[f])
                        /\ done'[i].code = "failure" /\ ~Listed("extern") /\ CopyWorked(f)
                             => obj[Sink(f)].data = orig[f]
    BY <2>2
  <2>4. CASE i # cur
    <3>1. i \in DOMAIN done /\ done'[i] = done[i]
      BY <1>2, <2>2, <2>4
    <3> QED BY <2>3, <3>1 DEF DoneOK, Converted, Untouched, Contains
  <2>5. CASE i = cur
    <3>1. setup.args[i] = h /\ done'[i].code = code /\ done'[i].by = By
      BY <2>2, <2>5, <2>a DEF h
    <3>2. code = "success" => err = "OK"
      OBVIOUS
    <3>3. code = "failure" => err = "CANNOT" \/ (err = "OK" /\ req.kind = "unknown")
      OBVIOUS
    <3> HIDE DEF code
    <3>4. code = "success" /\ ~(By = "recode" /\ h = Std) => Out.data = Expected(By, Original)
      BY <1>1, <2>3, <3>2 DEF MainOK
    <3>5. code = "failure" /\ ~Listed("extern") /\ CopyWorked(h) => Out.data = Original
      <4>1. CASE err = "OK" /\ req.kind = "unknown"
        <5>1. By = "none"
          BY <4>1 DEF By
        <5> QED BY <1>1, <2>3, <4>1, <5>1 DEF MainOK, Expected
      <4>2. CASE err = "CANNOT"
        BY <1>1, <4>2 DEF MainOK
      <4> QED BY <3>3, <4>1, <4>2
    <3> QED BY <3>1, <3>4, <3>5 DEF Out, Original
  <2> QED BY <2>4, <2>5
<1> QED BY <1>3, <1>4

LEMMA StepDone ==
  ASSUME StreamInv, PathInv, BufferInv, Orderly, MainOK, DoneOK, [Next]_vars
  PROVE  DoneOK'
<1>0. DOMAIN done = 1 .. cur - 1 /\ cur \in 1 .. Len(setup.args) + 1
      /\ setup.args \in Seq(Files \cup {Std}) /\ Distinct
  BY ConvertAssumption DEF PathInv, CountsOK, StreamInv, TypeOK, Setups, Orderly
<1>1. CASE UNCHANGED vars
  BY <1>1 DEF DoneOK, Clean, Listed, CopyWorked, faults, Converted, Untouched, Contains,
     vars, fbvars, ctlvars
<1>2. CASE Next /\ pc \in {"main", "finish"}
  <2>1. CASE FinishFile
    BY <2>1, DoneFinish
  <2>2. CASE OpenFile \/ Exit
    <3>1. /\ UNCHANGED <<setup, orig>> /\ \A o \in Objects : obj'[o].data = obj[o].data
      BY <2>2, StepOutside
    <3>2. \A i \in DOMAIN done : Sink(setup.args[i]) \in Objects
      <4> TAKE i \in DOMAIN done
      <4>1. setup.args[i] \in Handles
        BY <1>0 DEF Handles
      <4> QED BY <4>1, Places
    <3>3. CASE done' = done
      BY <3>1, <3>2, <3>3
         DEF DoneOK, Clean, Listed, CopyWorked, faults, Converted, Untouched, Contains
    <3>4. CASE FileOpenFails(h) /\ Report("trouble", "none") /\ done' # done
      <4>1. done' = Append(done, [code |-> "trouble", by |-> "none"])
        BY <3>4 DEF Report
      <4>2. Len(done) + 1 \in DOMAIN done' /\ done'[Len(done) + 1].code = "trouble"
        BY <4>1 DEF PathInv, CountsOK
      <4> QED BY <4>2 DEF DoneOK, Clean
    <3> QED BY <2>2, <3>3, <3>4 DEF OpenFile, Exit, Stop, Jump, ctlrest
  <2> QED BY <1>2, <2>1, <2>2, StepPoints
<1>3. CASE Next /\ pc \notin {"main", "finish"}
  <2>1. InFile /\ FarKept /\ cur \in 1 .. Len(setup.args)
    BY <1>3, StepWhere
  <2>2. \A i \in DOMAIN done : Sink(setup.args[i]) \in Objects \ NearObjects
    BY <1>0, <2>1, OtherFile
  <2> QED
    BY <2>1, <2>2
       DEF DoneOK, Clean, Listed, CopyWorked, faults, Converted, Untouched, Contains,
           FarKept, InFile
<1> QED BY <1>1, <1>2, <1>3
-----------------------------------------------------------------------------
(* A step that goes on to l with error e: what must hold there.             *)
LEMMA FileJump ==
  ASSUME PathInv, FileInv, pc \notin {"main", "finish", "stopped"},
    NEW l, NEW e, Jump(l, e), l \notin Copying \cup {"main", "sample"},
    l \in Untried => Sampled',
    l = "try" => (Sampled \/ (todo = <<>> /\ Spoiled))',
    l = "returned" /\ e = "CANNOT" => (Sampled \/ (Head(todo) = "extern" /\ Spoiled))',
    l \in {"returned", "finish"} /\ e = "OK" /\ Clean /\ ~(By = "recode" /\ h = Std)
      => (Out.data = Expected(By, Original))',
    l = "refuse" /\ e = "OK" /\ ~Listed("extern") => (Out.data = Original)',
    l = "finish" /\ e = "CANNOT" /\ ~Listed("extern") /\ CopyWorked(h)
      => (Out.data = Original)',
    l = "bi_seek" => Emptied',
    l \in {"bi_read", "bi_sync"} => HalfWay(In.pos)',
    l = "bi_back" => (HalfWay(In.pos - MainSize) /\ Holds(In.pos - MainSize))',
    l = "bi_write" => (HalfWay(In.pos) /\ Holds(In.pos))',
    l \in {"ic_rewind", "ic_trunc"} \/ (l = "ic_saved" /\ e = "OK")
      => (Saved /\ MainSize = 0 /\ Unwritten)',
    l \in {"ic_trunc", "rc_to", "rc_trunc", "rd_trunc"} => obj'[Temp].pos = 0,
    l \in IconvLoop \cup {"rc_from", "rc_to", "rc_trunc"} => Saved',
    l = "ic_read" => MainSize' = 0,
    l = "ic_save" => obj'[Temp] = EmptyBuffer,
    l \in {"ic_read", "ic_write"} /\ Clean => Flow(ToCome(0))' /\ mem'["iconv"].pos >= 0,
    l \in {"ic_conv", "ic_full"} /\ Clean => Flow(ToCome(used))',
    l \in {"ic_conv", "ic_full", "ic_write"} /\ eof
      => obj'[Temp].pos >= Len(obj'[Temp].data),
    (l = "ic_write" /\ eof) \/ (l = "rc_done" /\ e = "OK") => mem'["iconv"].pos = 0,
    l \in {"ic_free", "rd_free", "ex_free"} /\ e = "OK" /\ (Clean \/ l # "ic_free")
      => (Out.data = Images(Original))',
    (l = "rc_done" /\ e = "OK") \/ e = "MALFORM" => (In.data = Original)',
    l \notin IconvLoop \cup {"rc_from", "rc_to", "rc_trunc", "rc_done", "stopped"}
      /\ Clean /\ (e # "IOFAIL" \/ l = "refuse") => mem'["iconv"].pos = 0,
    l \in {"rd_temp", "rd_seek", "rd_task", "rd_file", "rd_rewind", "rd_trunc"} => Emptied',
    l = "rd_task" => (In.pos = 0)',
    l \in {"rd_file", "rd_rewind", "rd_trunc"} => (obj[Temp].data = Images(Original))',
    (l = "ex_saved" /\ e = "OK") \/ l = "ex_run" =>
      (IF h = Std THEN Saved /\ Unwritten /\ Drained ELSE Sampled)',
    l = "ex_free" /\ e = "CANNOT" => Drained'
  PROVE FileInv'
<1>1. /\ pc' = l \/ pc' = "stopped"
      /\ err' = e /\ h' = h /\ Original' = Original
      /\ UNCHANGED <<setup, orig, fsize, eof, used, todo, req, done>>
  BY JumpFacts DEF Jump, ctlrest, Original
<1>2. pc' \notin Copying /\ Stage' = pc'
  BY <1>1 DEF Stage, Copying
<1>3. fsize' = Len(Original')
  BY <1>1 DEF FileInv, MainOK
<1>4. Clean' = Clean /\ Listed("extern")' = Listed("extern") /\ By' = By
      /\ CopyWorked(h)' = CopyWorked(h)
  BY <1>1 DEF Clean, Listed, By, CopyWorked, faults
<1>5. CASE pc' = "stopped"
  BY <1>1, <1>2, <1>5
     DEF FileInv, MainOK, InPlaceOK, CopyOK, IconvOK, IconvBufferOK, RecodeOK, ExternOK,
         Untried, IconvLoop, Copying
<1>6. CASE pc' = l /\ l # "stopped"
  <2>1. MainOK'
    BY <1>1, <1>3, <1>4, <1>6 DEF MainOK
  <2>2. InPlaceOK' /\ CopyOK'
    BY <1>2, <1>6 DEF InPlaceOK, CopyOK, Copying
  <2>3. IconvOK'
    BY <1>1, <1>3, <1>4, <1>6 DEF IconvOK
  <2>4. IconvBufferOK'
    BY <1>1, <1>2, <1>4, <1>6 DEF IconvBufferOK
  <2>5. RecodeOK' /\ ExternOK'
    BY <1>1, <1>6 DEF RecodeOK, ExternOK
  <2> QED BY <2>1, <2>2, <2>3, <2>4, <2>5 DEF FileInv
<1> QED BY <1>1, <1>5, <1>6

(* The same for the start of a copy. *)
LEMMA FileCall ==
  ASSUME PathInv, FileInv, pc \notin {"main", "finish", "stopped"},
         NEW f, NEW t, NEW x, NEW b, NEW l, Call(f, t, x, b, l),
         l \notin IconvLoop \cup {"rc_from", "rc_to", "rc_trunc"},
         err \in {"OK", "CANNOT"},
         CopyGoing' \/ (l = "refuse" /\ Spoiled'),
         Clean /\ l # "rc_done" => mem'["iconv"].pos = 0
  PROVE FileInv'
<1>1. /\ pc' = "copy_write" \/ pc' = "stopped"
      /\ call'.ret = l /\ h' = h /\ Original' = Original /\ err' = err
      /\ UNCHANGED <<setup, orig, fsize, eof, used, todo, req, done>>
  BY CallFacts DEF Call, Original
<1>2. pc' = "copy_write" => Stage' = l
  BY <1>1 DEF Stage, Copying
<1>3. fsize' = Len(Original') /\ Clean' = Clean
  BY <1>1 DEF FileInv, MainOK, Clean
<1>4. MainOK'
  BY <1>1, <1>3 DEF MainOK, Untried
<1>5. InPlaceOK' /\ IconvOK' /\ RecodeOK' /\ ExternOK'
  BY <1>1 DEF InPlaceOK, IconvOK, RecodeOK, ExternOK, IconvLoop
<1>6. CopyOK'
  BY <1>1 DEF CopyOK, Copying
<1>7. IconvBufferOK'
  BY <1>1, <1>2, <1>3 DEF IconvBufferOK
<1> QED BY <1>4, <1>5, <1>6, <1>7 DEF FileInv

(* A failure that closes the file. *)
LEMMA FileFails ==
  ASSUME PathInv, FileInv, pc \notin {"main", "finish", "stopped"},
         NEW l \in ReturnPoints \ {"refuse"}, Jump(l, "IOFAIL")
  PROVE FileInv'
<1>1. /\ l \notin Copying \cup {"main", "sample"} \cup Untried \cup IconvLoop
      /\ l \notin {"try", "refuse", "bi_seek", "bi_read", "bi_sync", "bi_back", "bi_write",
                  "ic_save", "ic_rewind", "ic_trunc", "rc_from", "rc_to", "rc_trunc",
                  "rd_temp", "rd_seek", "rd_task", "rd_file", "rd_rewind", "rd_trunc", "ex_run"}
  BY DEF ReturnPoints, Untried, IconvLoop, Copying
<1> QED BY <1>1, FileJump DEF IconvLoop

(* The end of the program. *)
LEMMA FileStops ==
  ASSUME PathInv, FileInv, pc \notin {"main", "finish", "stopped"},
         Jump("stopped", err), obj' = obj
  PROVE FileInv'
<1>1. err = "MALFORM" => (In.data = Original)'
  <2>1. h' = h /\ orig' = orig
    BY JumpFacts
  <2> QED BY <2>1 DEF FileInv, IconvOK, In, Original
<1> QED BY <1>1, FileJump DEF Untried, IconvLoop, Copying

(* Nothing happened to the file, its output and the main buffer. *)
LEMMA FileKept ==
  ASSUME h' = h, orig' = orig, obj'[Source(h)] = obj[Source(h)],
         obj'[Sink(h)] = obj[Sink(h)], mem'["main"] = mem["main"]
  PROVE  /\ Original' = Original /\ In' = In /\ Out' = Out /\ MainSize' = MainSize
         /\ Sampled => Sampled' /\ Emptied' = Emptied
         /\ Unwritten' = Unwritten /\ Drained' = Drained
BY DEF Original, In, Out, MainSize, Sampled, Emptied, Unwritten, Drained

(* A read into an empty buffer. *)
LEMMA ReadFresh ==
  ASSUME StoreOK, NEW x \in Handles, NEW b \in Buffers, mem[b].pos = 0, FileRead(x, b)
  PROVE  LET n == mem'[b].pos
             o == obj[Source(x)]
         IN /\ StoreOK' /\ OthersKept(Source(x)) /\ BuffersKept(b)
            /\ n \in Nat /\ mem'[b].data \in Text /\ Len(mem'[b].data) = n
            /\ obj'[Source(x)].data = o.data
            /\ obj'[Source(x)].pos = o.pos + n
            /\ o.pos <= Len(o.data) => o.pos + n <= Len(o.data)
            /\ n < Size(b) => o.pos + n >= Len(o.data)
            /\ \A i \in 1 .. n : mem'[b].data[i] = o.data[o.pos + i]
<1> DEFINE s == Fetched(x, b)
           o == obj[Source(x)]
<1>1. /\ s \in Text /\ Len(s) \in Nat
      /\ \A i \in 1 .. Len(s) : s[i] = o.data[o.pos + i]
      /\ o.pos <= Len(o.data) => o.pos + Len(s) <= Len(o.data)
      /\ Len(s) < Size(b) - mem[b].pos => o.pos + Len(s) >= Len(o.data)
  BY FetchedFacts
<1>2. /\ StoreOK' /\ OthersKept(Source(x)) /\ BuffersKept(b)
      /\ obj'[Source(x)].data = o.data
      /\ obj'[Source(x)].pos = o.pos + Len(s)
      /\ mem'[b] = Filled(x, b) /\ mem'[b].pos = mem[b].pos + Len(s)
  BY ReadStore
<1>3. mem[b].data = <<>>
  <2>1. mem[b].data \in Text /\ Len(mem[b].data) = 0
    BY StoreTypes DEF StoreOK, BuffersOK
  <2> QED BY <2>1, TextLen
<1>4. Filled(x, b).data = s
  <2>1. Filled(x, b).data = mem[b].data \o s
    BY FilledFacts
  <2> QED BY <1>1, <1>3, <2>1, TextEmpty
<1> HIDE DEF s, o
<1>5. mem'[b].pos = Len(s) /\ mem'[b].data = s /\ Size(b) - mem[b].pos = Size(b)
  BY <1>1, <1>2, <1>4, SizeType
<1> QED BY <1>1, <1>2, <1>5 DEF o

LEMMA FileOpened ==
  ASSUME StreamInv, PathInv, BufferInv, FileInv, AheadOK, OpenFile
  PROVE  FileInv'
<1> DEFINE H == h
<1>1. /\ pc = "main" /\ cur <= Len(setup.args) /\ H \in Files \cup {Std} /\ H \in Handles
      /\ err = "OK" /\ status = "running" /\ Stage = "main" /\ StoreOK
  BY MainHandle DEF OpenFile, PathInv, ErrorsOK, CountsOK, Stage, Copying, BufferInv
<1>2. /\ mem' = [mem EXCEPT !["main"] = EmptyBuffer] /\ UNCHANGED <<setup, orig>>
      /\ mem'["main"].pos = 0 /\ mem'["iconv"] = mem["iconv"]
  <2>1. mem' = [mem EXCEPT !["main"] = EmptyBuffer]
    BY DEF OpenFile, FileOpen, FileOpenFails
  <2>2. BuffersOK' /\ BuffersKept("main") /\ mem'["main"].pos = 0
    BY <1>1, <2>1, SetBuffer, SpecialBuffers DEF Buffers
  <2> QED BY <2>1, <2>2 DEF BuffersKept, Buffers, OpenFile, Report
<1>3. CASE /\ FileOpen(h) /\ fsize' = Len(obj[Source(h)].data) /\ Goto("sample")
           /\ UNCHANGED <<setup, orig, err, cur, req, todo, call, used, eof, ok, done>>
  <2>1. pc' = "sample" /\ h' = h /\ Stage' = "sample"
    BY <1>1, <1>3 DEF Goto, FileOpen, h, Stage, Copying
  <2>2. setup.args[cur] = h /\ cur \in DOMAIN setup.args
    BY <1>1, ConvertAssumption DEF StreamInv, TypeOK, Setups, h
  <2>3. /\ obj[Source(h)].data = Original
        /\ h = Std => /\ obj["stdin"].pos = 0
                      /\ obj["stdout"].data = <<>> /\ obj["stdout"].pos = 0
    <3>1. Untaken(setup.args[cur])
      BY <1>1, <2>2 DEF AheadOK
    <3>2. Untaken(h)
      BY <2>2, <3>1
    <3> QED BY <3>2 DEF Untaken, Original
  <2>4. /\ obj'[Source(h)].data = Original /\ obj'[Source(h)].pos = 0
        /\ h = Std => obj'["stdout"].data = <<>> /\ obj'["stdout"].pos = 0
    <3>1. CASE h = Std
      BY <1>3, <2>3, <3>1 DEF FileOpen, Source
    <3>2. CASE h # Std
      <4>1. obj' = [obj EXCEPT ![h].pos = 0] /\ h \in Objects /\ Source(h) = h
        BY <1>1, <1>3, <3>2 DEF FileOpen, Source, Objects
      <4> QED BY <1>1, <2>3, <3>2, <4>1 DEF StoreOK, ObjectsOK, Stream
    <3> QED BY <3>1, <3>2
  <2>5. Original' = Original /\ (Emptied /\ In.pos = 0)'
    BY <1>2, <2>1, <2>4 DEF Original, Emptied, In, Out, MainSize, Unwritten, Sink
  <2>6. fsize' = Len(Original')
    BY <1>3, <2>3, <2>5
  <2>7. MainOK'
    BY <1>1, <1>3, <2>1, <2>5, <2>6 DEF MainOK, Untried
  <2>8. IconvBufferOK'
    BY <1>1, <1>2, <1>3, <2>1 DEF FileInv, IconvBufferOK, IconvLoop, Clean
  <2>9. InPlaceOK' /\ CopyOK' /\ IconvOK' /\ RecodeOK' /\ ExternOK'
    BY <1>1, <1>3, <2>1 DEF InPlaceOK, CopyOK, IconvOK, RecodeOK, ExternOK, IconvLoop, Copying
  <2> QED BY <2>7, <2>8, <2>9 DEF FileInv
<1>4. CASE FileOpenFails(h) /\ Report("trouble", "none")
  <2>1. pc' = "main" /\ err' = "OK" /\ Stage' = "main"
        /\ done' = Append(done, [code |-> "trouble", by |-> "none"])
    BY <1>1, <1>4 DEF FileOpenFails, Report, Goto, Stage, Copying
  <2>2. ~Clean'
    <3>1. Len(done) + 1 \in DOMAIN done' /\ done'[Len(done) + 1].code = "trouble"
      BY <2>1 DEF PathInv, CountsOK
    <3> QED BY <3>1 DEF Clean
  <2> QED
    BY <2>1, <2>2 DEF FileInv, MainOK, InPlaceOK, CopyOK, IconvOK, IconvBufferOK,
       RecodeOK, ExternOK, Untried, IconvLoop, Copying
<1> QED BY <1>3, <1>4 DEF OpenFile

LEMMA FileMain ==
  ASSUME StreamInv, PathInv, BufferInv, FileInv, AheadOK, Main
  PROVE  FileInv'
<1>0. StoreOK /\ (pc \notin {"main", "stopped"} => h \in Handles)
  BY AtPlace DEF BufferInv
<1>1. CASE OpenFile
  BY <1>1, FileOpened
<1>2. CASE ReadSample
  <2>0. pc = "sample" /\ err = "OK" /\ Emptied /\ In.pos = 0
    BY <1>2 DEF ReadSample, Try, PathInv, ErrorsOK, FileInv, MainOK
  <2>1. CASE FileReadFails(h, "main") /\ Jump("finish", "IOFAIL")
    BY <2>0, <2>1, FileFails DEF ReturnPoints
  <2>2. CASE FileRead(h, "main") /\ Jump("analyse", err)
    <3> DEFINE n == mem'["main"].pos
               o == obj[Source(h)]
    <3>1. /\ OthersKept(Source(h)) /\ BuffersKept("main")
          /\ n \in Nat /\ obj'[Source(h)].data = o.data
          /\ obj'[Source(h)].pos = o.pos + n
          /\ o.pos <= Len(o.data) => o.pos + n <= Len(o.data)
          /\ \A i \in 1 .. n : mem'["main"].data[i] = o.data[o.pos + i]
      BY <1>0, <2>0, <2>2, ReadFresh DEF Buffers, Emptied, MainSize
    <3>2. h' = h /\ Original' = Original /\ mem'["iconv"] = mem["iconv"]
      BY <2>2, <3>1, JumpFacts DEF Original, BuffersKept, Buffers
    <3>3. o.data = Original /\ o.pos = 0 /\ Len(Original) \in Nat
      BY <1>0, <2>0, Places, StoreTypes DEF Emptied, In
    <3>4. Unwritten'
      <4>1. h = Std => obj'["stdout"] = obj["stdout"]
        BY <3>1 DEF OthersKept, Source, Objects
      <4> QED BY <2>0, <3>2, <4>1 DEF Emptied, Unwritten, Out, Sink
    <3> HIDE DEF n, o
    <3>5. Sampled'
      <4>1. In'.data = Original' /\ In'.pos = n /\ n <= Len(Original')
            /\ \A i \in 1 .. n : mem'["main"].data[i] = Original'[i]
        BY <3>1, <3>2, <3>3 DEF In
      <4> QED BY <3>4, <4>1 DEF Sampled, MainSize, n
    <3>6. Clean => mem'["iconv"].pos = 0
      BY <2>0, <3>2 DEF FileInv, IconvBufferOK, Stage, Copying, IconvLoop
    <3> QED BY <2>0, <2>2, <3>5, <3>6, FileJump DEF IconvLoop, Copying
  <2> QED BY <1>2, <2>1, <2>2 DEF ReadSample, Try
<1>3. CASE Analyse
  <2>0. /\ pc = "analyse" /\ Stage = "analyse" /\ err = "OK" /\ Sampled
        /\ UNCHANGED <<obj, mem, setup, orig, err, cur, fsize, used, eof, ok, done>>
        /\ status = "running"
    BY <1>3 DEF Analyse, PathInv, ErrorsOK, FileInv, MainOK, Untried, fbvars, CountsOK,
       Stage, Copying
  <2>1. /\ h' = h /\ Original' = Original /\ Sampled' /\ In' = In /\ Out' = Out
        /\ fsize' = Len(Original') /\ Clean' = Clean
    BY <2>0, FileKept DEF h, FileInv, MainOK, Clean
  <2>2. Clean => mem'["iconv"].pos = 0
    BY <2>0 DEF FileInv, IconvBufferOK, IconvLoop
  <2>3. CASE pc' = "try"
    <3>1. Stage' = "try"
      BY <2>3 DEF Stage, Copying
    <3> QED
      BY <2>0, <2>1, <2>2, <2>3, <3>1 DEF FileInv, MainOK, InPlaceOK, CopyOK, IconvOK,
         IconvBufferOK, RecodeOK, ExternOK, Untried, IconvLoop, Copying
  <2>4. CASE pc' = "finish" /\ h # Std /\ req'.kind # "known"
    <3>1. Stage' = "finish" /\ By' = "none"
      BY <2>4 DEF Stage, Copying, By
    <3>2. Out' = In' /\ In'.data = Original'
      BY <2>1, <2>4 DEF In, Out, Source, Sink, Sampled
    <3> QED
      BY <2>0, <2>1, <2>2, <2>4, <3>1, <3>2 DEF FileInv, MainOK, InPlaceOK, CopyOK, IconvOK,
         IconvBufferOK, RecodeOK, ExternOK, Untried, IconvLoop, Copying, Expected
  <2>5. CASE /\ pc' = "copy_write" /\ h = Std
             /\ call' = [from |-> h, to |-> h, xlat |-> FALSE, buf |-> "main",
                         ret |-> "finish"]
    <3>1. Stage' = "finish" /\ call'.ret = "finish"
      BY <2>5 DEF Stage, Copying
    <3>2. CopyGoing'
      <4>1. CopySource' = In /\ CopyTarget' = Out /\ CopyBuffer' = mem["main"]
            /\ CopyGoal' = In.data
        BY <2>0, <2>5 DEF CopySource, CopyTarget, CopyBuffer, CopyGoal, In, Out
      <4>2. Out.data = <<>> /\ Out.pos = 0 /\ In.pos \in Nat
        <5>1. In.pos \in Nat
          BY <1>0, <2>0, Places, StoreTypes DEF In
        <5> QED BY <2>0, <2>5, <5>1 DEF Sampled, Unwritten
      <4> QED BY <2>0, <2>1, <3>1, <4>1, <4>2 DEF CopyGoing, Sampled, MainSize
    <3> QED
      BY <2>0, <2>1, <2>2, <2>5, <3>1, <3>2 DEF FileInv, MainOK, InPlaceOK, CopyOK, IconvOK,
         IconvBufferOK, RecodeOK, ExternOK, Untried, IconvLoop, Copying, Expected
  <2> QED BY <1>3, <2>0, <2>3, <2>4, <2>5 DEF Analyse, Goto, fbvars
<1>4. CASE FinishFile
  <2>1. /\ pc = "finish" /\ Stage = "finish" /\ mem' = mem /\ Report(IF (err = "OK" /\ req.kind = "unknown") \/ err = "CANNOT"
                THEN "failure" ELSE IF err = "OK" THEN "success" ELSE "trouble", By)
    BY <1>4 DEF FinishFile, By, Stage, Copying
  <2>2. err' = "OK" /\ pc' \in {"main", "stopped"} /\ Stage' = pc'
    BY <2>1 DEF Report, Goto, Stage, Copying
  <2>3. CASE pc' = "stopped"
    BY <2>2, <2>3 DEF FileInv, MainOK, InPlaceOK, CopyOK, IconvOK, IconvBufferOK,
       RecodeOK, ExternOK, Untried, IconvLoop, Copying
  <2>4. CASE pc' = "main" /\ Clean'
    <3>1. err # "IOFAIL" /\ Clean
      <4> DEFINE code == IF (err = "OK" /\ req.kind = "unknown") \/ err = "CANNOT"
                THEN "failure" ELSE IF err = "OK" THEN "success" ELSE "trouble"
      <4>1. done' = Append(done, [code |-> code, by |-> By])
        BY <2>1, <2>4 DEF Report, Goto
      <4>2. err = "IOFAIL" => code = "trouble"
        OBVIOUS
      <4> HIDE DEF code
      <4>3. /\ Len(done) + 1 \in DOMAIN done' /\ done'[Len(done) + 1].code = code
            /\ \A j \in DOMAIN done : j \in DOMAIN done' /\ done'[j] = done[j]
        BY <4>1 DEF PathInv, CountsOK
      <4> QED BY <2>4, <4>2, <4>3 DEF Clean
    <3>2. mem'["iconv"].pos = 0
      BY <2>1, <3>1 DEF FileInv, IconvBufferOK, IconvLoop
    <3> QED
      BY <2>2, <2>4, <3>2 DEF FileInv, MainOK, InPlaceOK, CopyOK, IconvOK, IconvBufferOK,
         RecodeOK, ExternOK, Untried, IconvLoop, Copying
  <2>5. CASE pc' = "main" /\ ~Clean'
    BY <2>2, <2>5 DEF FileInv, MainOK, InPlaceOK, CopyOK, IconvOK, IconvBufferOK,
       RecodeOK, ExternOK, Untried, IconvLoop, Copying
  <2> QED BY <2>2, <2>3, <2>4, <2>5
<1>5. CASE Exit
  <2>1. pc' = "stopped" /\ err' = err /\ err = "OK"
    BY <1>5 DEF Exit, Stop, Jump, Goto, PathInv, ErrorsOK
  <2> QED
    BY <2>1 DEF FileInv, MainOK, InPlaceOK, CopyOK, IconvOK, IconvBufferOK,
       RecodeOK, ExternOK, Untried, IconvLoop, Copying
<1> QED BY <1>1, <1>2, <1>3, <1>4, <1>5 DEF Main

(* The copy of standard input begins with what the sample left in the buffer. *)
LEMMA StdCopy ==
  ASSUME StreamInv, BufferInv, pc \notin {"main", "stopped"}, Sampled, h = Std,
         UNCHANGED <<obj, mem>>, NEW x, NEW l \in {"refuse", "returned"},
         Call(h, h, x, "main", l)
  PROVE  CopyGoing'
<1>1. /\ call'.from = h /\ call'.to = h /\ call'.ret = l /\ call'.buf = "main"
      /\ h' = h /\ Original' = Original
  BY CallFacts DEF Original, Call
<1>2. CopySource' = In /\ CopyTarget' = Out /\ CopyBuffer' = mem["main"]
  BY <1>1 DEF CopySource, CopyTarget, CopyBuffer, In, Out
<1>3. Out.data = <<>> /\ Out.pos = 0 /\ In.pos \in Nat /\ Len(Out.data) = 0
  <2>1. In.pos \in Nat
    BY AtPlace DEF In
  <2> QED BY <2>1 DEF Sampled, Unwritten
<1> QED BY <1>1, <1>2, <1>3 DEF CopyGoing, Sampled, MainSize

LEMMA FileChoose ==
  ASSUME StreamInv, PathInv, BufferInv, Orderly, FileInv, Choose
  PROVE  FileInv'
<1>0. /\ pc \in {"try", "refuse", "returned"} /\ Stage = pc
      /\ UNCHANGED <<obj, mem, setup, orig, cur>> /\ h' = h
  BY DEF Choose, TryConverter, Refuse, Returned, fbvars, Jump, Call, ctlrest, Stage,
         Copying, h
<1>1. /\ Sampled => Sampled'
      /\ Spoiled => Spoiled'
      /\ Original' = Original /\ In' = In /\ Out' = Out
  <2>1. /\ Sampled => Sampled'
        /\ Original' = Original /\ In' = In /\ Out' = Out /\ Drained' = Drained
    BY <1>0, FileKept
  <2> QED BY <1>0, <2>1 DEF Spoiled, Listed
<1>2. Clean /\ (err # "IOFAIL" \/ pc = "refuse") => mem'["iconv"].pos = 0
  BY <1>0 DEF FileInv, IconvBufferOK, IconvLoop
<1>3. CASE TryConverter
  <2>0. pc = "try" /\ (Sampled \/ (todo = <<>> /\ Spoiled)) /\ err \in {"OK", "CANNOT"}
    BY <1>3 DEF TryConverter, FileInv, MainOK, PathInv, ErrorsOK
  <2>1. CASE todo # <<>> /\ Jump(Head(todo), "OK")
    <3>1. Head(todo) \in Converters
      BY <2>1, HeadTailProperties DEF StreamInv, TypeOK
    <3>2. PICK l \in Converters : Jump(l, "OK")
      BY <2>1, <3>1
    <3> QED BY <1>1, <1>2, <2>0, <2>1, <3>2, FileJump DEF Converters, IconvLoop, Copying
  <2>2. CASE todo = <<>> /\ h = Std /\ Call(h, h, FALSE, "main", "refuse")
    <3>1. Sampled => CopyGoing'
      BY <1>0, <2>2, StdCopy
    <3> QED BY <1>1, <1>2, <2>0, <2>2, <3>1, FileCall DEF IconvLoop
  <2>3. CASE todo = <<>> /\ h # Std /\ Jump("finish", "CANNOT")
    <3>1. ~Listed("extern") => (Out.data = Original)'
      BY <1>1, <2>0, <2>3 DEF Spoiled, Sampled, In, Out, Source, Sink
    <3> QED BY <1>2, <2>0, <2>3, <3>1, FileJump DEF IconvLoop, Copying, Untried
  <2> QED BY <1>3, <2>1, <2>2, <2>3 DEF TryConverter
<1>4. CASE Refuse
  <2>1. pc = "refuse" /\ Jump("finish", "CANNOT") /\ h = Std
    BY <1>0, <1>4 DEF Refuse, PathInv, HeadsOK
  <2>2. CopyWorked(h) => err = "OK"
    BY <2>1 DEF CopyWorked, PathInv, ErrorsOK
  <2>3. ~Listed("extern") /\ CopyWorked(h) => Out'.data = Original'
    BY <1>1, <2>1, <2>2 DEF FileInv, MainOK
  <2> QED BY <1>2, <2>1, <2>3, FileJump DEF IconvLoop, Copying, Untried
<1>5. CASE Returned
  <2>0. pc = "returned" /\ todo # <<>>
    BY <1>5 DEF Returned, StreamInv, BeforeConverters, BetweenFiles
  <2>1. CASE err = "OK" /\ Jump("finish", "OK")
    <3>1. /\ Clean /\ ~(By = "recode" /\ h = Std) => Out.data = Expected(By, Original)
      BY <2>0, <2>1 DEF FileInv, MainOK
    <3>2. By' = By
      BY <2>1 DEF Jump, ctlrest, By
    <3>3. Expected(By', Original') = Expected(By, Original)
      BY <1>1, <3>2
    <3>4. Clean /\ ~(By = "recode" /\ h = Std) => (Out.data = Expected(By, Original))'
      BY <1>1, <3>1, <3>3
    <3> QED BY <1>2, <2>0, <2>1, <3>4, FileJump DEF IconvLoop, Copying, Untried
  <2>2. CASE Jump("finish", "IOFAIL")
    BY <2>0, <2>2, FileFails DEF ReturnPoints
  <2>3. CASE /\ err = "CANNOT" /\ todo' = Tail(todo) /\ Goto("try")
             /\ UNCHANGED <<setup, orig, err, cur, req, fsize, call, used, eof, ok, done>>
    <3>1. Sampled \/ (Head(todo) = "extern" /\ Spoiled)
      BY <2>0, <2>3 DEF FileInv, MainOK
    <3>2. Head(todo) = "extern" => Tail(todo) = <<>>
      <4>1. todo \in Seq(Converters)
        BY DEF StreamInv, TypeOK
      <4>2. 1 \in DOMAIN todo /\ Head(todo) = todo[1] /\ Len(todo) \in Nat
        BY <2>0, <4>1
      <4>3. todo[1] = "extern" => Len(todo) = 1
        BY <4>2 DEF PathInv, TodoOK, Orderly
      <4>4. Len(todo) = 1 => Tail(todo) = <<>>
        <5>1. Tail(todo) \in Seq(Converters) /\ Len(Tail(todo)) = Len(todo) - 1
          BY <2>0, <4>1, HeadTailProperties
        <5>2. Tail(todo) # <<>> => Len(Tail(todo)) \in Nat \ {0}
          <6> DEFINE t == Tail(todo)
          <6>1. t \in Seq(Converters)
            BY <5>1
          <6> HIDE DEF t
          <6>2. t # <<>> => Len(t) \in Nat \ {0}
            BY <6>1, EmptySeq
          <6> QED BY <6>2 DEF t
        <5> QED BY <5>1, <5>2
      <4> QED BY <4>2, <4>3, <4>4
    <3>3. Sampled' \/ (todo' = <<>> /\ Spoiled')
      BY <1>1, <2>3, <3>1, <3>2
    <3>4. pc' \in {"try", "stopped"} /\ Stage' = pc' /\ Clean' = Clean
      BY <2>3 DEF Goto, Stage, Copying, Clean
    <3>5. fsize' = Len(Original')
      BY <1>1, <2>0, <2>3 DEF FileInv, MainOK
    <3> QED
      BY <1>2, <2>3, <3>3, <3>4, <3>5 DEF FileInv, MainOK, InPlaceOK, CopyOK, IconvOK,
         IconvBufferOK, RecodeOK, ExternOK, Untried, IconvLoop, Copying
  <2> QED BY <1>5, <2>1, <2>2, <2>3 DEF Returned
<1> QED BY <1>3, <1>4, <1>5 DEF Choose

(* Where a copy reads and writes. *)
LEMMA CopyPlaces ==
  ASSUME StreamInv, PathInv, BufferInv, pc \in Copying
  PROVE  /\ call.from \in Handles /\ call.to \in Handles /\ call.buf \in Buffers
         /\ Source(call.from) \in Objects /\ Sink(call.to) \in Objects
         /\ Source(call.from) # Sink(call.to)
         /\ call.xlat \in BOOLEAN
         /\ CopySource.data \in Text /\ CopySource.pos \in Nat /\ Len(CopySource.data) \in Nat
         /\ CopyTarget.data \in Text /\ CopyTarget.pos \in Nat /\ Len(CopyTarget.data) \in Nat
         /\ CopyTarget.pos <= Len(CopyTarget.data) /\ CopyTarget \in Stream
         /\ CopyBuffer.data \in Text /\ CopyBuffer.pos \in Int
         /\ CopyBuffer.pos >= 0 => Len(CopyBuffer.data) = CopyBuffer.pos
         /\ Original \in Text /\ StoreOK /\ h \in Files \cup {Std}
<1>1. /\ call.from \in Handles /\ call.to \in Handles /\ call.buf \in Buffers
      /\ call.to # Std => Source(call.from) # call.to
      /\ Tight(Sink(call.to)) /\ StoreOK /\ call.xlat \in BOOLEAN
  BY AtCopy DEF Copying, PathInv, CallsOK, BufferInv
<1>2. Source(call.from) \in Objects /\ Sink(call.to) \in Objects
  BY <1>1, Places
<1>3. Source(call.from) # Sink(call.to)
  BY <1>1, FilebufAssumption DEF Source, Sink, Handles, Std, Temp
<1>4. h \in Files \cup {Std} /\ Original \in Text
  BY CurrentHandle DEF Copying, Original, BufferInv, PlacesOK
<1>5. CopyBuffer.pos >= 0 => Len(CopyBuffer.data) = CopyBuffer.pos
  <2>1. /\ CopyBuffer.pos \in Int
        /\ Len(CopyBuffer.data) = IF CopyBuffer.pos = -1 THEN 0 ELSE CopyBuffer.pos
    BY <1>1, StoreTypes DEF CopyBuffer, StoreOK, BuffersOK
  <2> QED BY <2>1
<1> QED
  BY <1>1, <1>2, <1>3, <1>4, <1>5, StoreTypes DEF CopySource, CopyTarget, CopyBuffer, Tight

(* Translating goes byte by byte. *)
LEMMA XlatAt ==
  ASSUME NEW s \in Text, NEW t \in Text, NEW i \in 1 .. Len(s), NEW j \in 1 .. Len(t),
         s[i] = t[j]
  PROVE  Xlat(s)[i] = Xlat(t)[j]
<1>1. DOMAIN s = 1 .. Len(s) /\ DOMAIN t = 1 .. Len(t)
  BY TextLen
<1> QED BY <1>1 DEF Xlat

(* The bytes that are written next. *)
LEMMA CopyNext ==
  ASSUME StreamInv, PathInv, BufferInv, pc \in Copying, CopyGoing
  PROVE  /\ CopyBytes \in Text /\ Len(CopyBytes) = CopyBuffer.pos
         /\ \A i \in 1 .. CopyBuffer.pos : CopyBytes[i] = CopyGoal[CopyTarget.pos + i]
<1> DEFINE T == CopyTarget
           B == CopyBuffer
           S == CopySource
           bytes == CopyBytes
           n == B.pos
<1>0. /\ call.xlat \in BOOLEAN
      /\ S.data \in Text /\ S.pos \in Nat /\ Len(S.data) \in Nat
      /\ T.pos \in Nat
      /\ B.data \in Text /\ B.pos \in Int
      /\ B.pos >= 0 => Len(B.data) = B.pos
  BY CopyPlaces
<1>1. bytes \in Text
  BY AtCopy DEF Copying
<1>2. /\ n >= 0 /\ T.pos + n = S.pos /\ S.pos <= Len(S.data)
      /\ \A i \in 1 .. n : B.data[i] = S.data[T.pos + i]
  BY DEF CopyGoing
<1>3. Len(bytes) = n /\ \A i \in 1 .. n : bytes[i] = CopyGoal[T.pos + i]
  <2>1. CASE call.xlat = FALSE
    BY <1>0, <1>2, <2>1 DEF CopyBytes, CopyGoal, CopyBuffer
  <2>2. CASE call.xlat = TRUE
    <3>1. bytes = Xlat(B.data) /\ CopyGoal = Xlat(S.data)
      BY <2>2 DEF CopyBytes, CopyGoal, CopyBuffer
    <3> HIDE DEF B, S, T, bytes
    <3>2. Len(bytes) = n
      BY <1>0, <1>2, <3>1, XlatType
    <3>3. ASSUME NEW i \in 1 .. n PROVE bytes[i] = CopyGoal[T.pos + i]
      <4>1. i \in 1 .. Len(B.data) /\ T.pos + i \in 1 .. Len(S.data)
        BY <1>0, <1>2
      <4>2. B.data[i] = S.data[T.pos + i]
        BY <1>2
      <4> QED BY <1>0, <3>1, <4>1, <4>2, XlatAt
    <3> QED BY <3>2, <3>3
  <2> QED BY <1>0, <2>1, <2>2
<1> QED BY <1>1, <1>3

(* One block reached the target. *)
LEMMA CopyWritten ==
  ASSUME StreamInv, PathInv, BufferInv, pc = "copy_write", CopyGoing,
         FileWrite(call.to, call.buf, CopyBytes), Jump("copy_read", err)
  PROVE  CopyGoing'
<1> DEFINE T == CopyTarget
           B == CopyBuffer
           S == CopySource
           bytes == CopyBytes
           n == B.pos
           r == Overwritten(T, bytes)
<1>0. /\ call.to \in Handles /\ call.buf \in Buffers /\ StoreOK /\ pc \in Copying
      /\ Source(call.from) \in Objects /\ Sink(call.to) \in Objects
      /\ Source(call.from) # Sink(call.to) /\ call.xlat \in BOOLEAN
      /\ S.data \in Text /\ S.pos \in Nat /\ Len(S.data) \in Nat
      /\ T.data \in Text /\ T.pos \in Nat /\ Len(T.data) \in Nat /\ T \in Stream
      /\ T.pos <= Len(T.data)
      /\ B.data \in Text /\ B.pos \in Int
      /\ B.pos >= 0 => Len(B.data) = B.pos
  BY CopyPlaces DEF Copying
<1>1. bytes \in Text /\ Tight(Sink(call.to))
  BY AtCopy
<1>2. /\ n >= 0 /\ T.pos + n = S.pos /\ S.pos <= Len(S.data)
      /\ \A i \in 1 .. n : B.data[i] = S.data[T.pos + i]
      /\ \A i \in 1 .. T.pos : T.data[i] = CopyGoal[i]
      /\ Len(T.data) = IF call.ret = "rc_done" THEN Len(S.data) ELSE T.pos
  BY DEF CopyGoing
<1>3. Len(bytes) = n /\ \A i \in 1 .. n : bytes[i] = CopyGoal[T.pos + i]
  BY <1>0, CopyNext
<1>4. /\ OthersKept(Sink(call.to)) /\ BuffersKept(call.buf)
      /\ obj'[Sink(call.to)] = r /\ mem'[call.buf] = EmptyBuffer
  BY <1>0, <1>1, WriteStore DEF CopyTarget
<1>5. UNCHANGED <<call, h, orig>>
  BY JumpFacts
<1>6. /\ CopySource' = S /\ CopyTarget' = r /\ CopyBuffer'.pos = 0
      /\ CopyGoal' = CopyGoal /\ Original' = Original
  BY <1>0, <1>4, <1>5, SpecialBuffers
     DEF CopySource, CopyTarget, CopyBuffer, CopyGoal, OthersKept, Original
<1>7. /\ r.pos = T.pos + n
      /\ Len(r.data) = IF r.pos >= Len(T.data) THEN r.pos ELSE Len(T.data)
      /\ \A i \in 1 .. T.pos : r.data[i] = T.data[i]
      /\ \A i \in 1 .. n : r.data[T.pos + i] = bytes[i]
  BY <1>0, <1>1, <1>3, OverwrittenFacts
<1>8. call.ret \in {"ic_saved", "ex_saved"} => Unwritten'
  <2>1. call.ret \in {"ic_saved", "ex_saved"} => call.to = Temp /\ Unwritten
    BY <1>0 DEF CopyGoing, StreamInv, CallOK, Copying
  <2>2. Sink(Temp) = Temp /\ Sink(h) # Temp /\ Sink(h) \in Objects
    BY AtPlace DEF Sink, Std, Temp
  <2> QED BY <1>4, <1>5, <2>1, <2>2 DEF Unwritten, Out, OthersKept
<1>9. S.data = IF call.ret = "rd_free" THEN Images(Original) ELSE Original
  BY DEF CopyGoing
<1> HIDE DEF T, B, S, bytes, n, r
<1>10. /\ r.pos = S.pos /\ r.pos + 0 = S.pos
       /\ Len(r.data) = IF call.ret = "rc_done" THEN Len(S.data) ELSE r.pos
  BY <1>0, <1>2, <1>7 DEF n
<1>11. \A i \in 1 .. r.pos : r.data[i] = CopyGoal[i]
  <2> TAKE i \in 1 .. r.pos
  <2>1. CASE i <= T.pos
    BY <1>0, <1>2, <1>7, <2>1
  <2>2. CASE i > T.pos
    <3>1. i - T.pos \in 1 .. n /\ T.pos + (i - T.pos) = i
      BY <1>0, <1>2, <1>7, <1>10, <2>2 DEF n
    <3> QED BY <1>3, <1>7, <3>1
  <2> QED BY <1>0, <1>10, <2>1, <2>2
<1> QED
  BY <1>0, <1>2, <1>5, <1>6, <1>8, <1>9, <1>10, <1>11 DEF CopyGoing

(* The next block was read. *)
LEMMA CopyGoesOn ==
  ASSUME StreamInv, PathInv, BufferInv, pc = "copy_read", CopyGoing, CopyBuffer.pos = 0,
         FileRead(call.from, call.buf), UNCHANGED <<call, h, orig>>
  PROVE  /\ CopyGoing' /\ CopyBuffer'.pos \in Nat
         /\ CopyTarget' = CopyTarget /\ CopySource'.data = CopySource.data
         /\ CopyGoal' = CopyGoal
         /\ CopyBuffer'.pos = 0 =>
              CopyTarget.data = CopyGoal /\ CopySource'.pos = Len(CopySource.data)
<1> DEFINE T == CopyTarget
           S == CopySource
           n == CopyBuffer'.pos
<1>0. /\ call.from \in Handles /\ call.buf \in Buffers /\ StoreOK /\ pc \in Copying
      /\ Source(call.from) \in Objects /\ Sink(call.to) \in Objects
      /\ Source(call.from) # Sink(call.to) /\ call.xlat \in BOOLEAN
      /\ S.data \in Text /\ S.pos \in Nat /\ Len(S.data) \in Nat
      /\ T.data \in Text /\ T.pos \in Nat
  BY CopyPlaces DEF Copying
<1>1. /\ OthersKept(Source(call.from))
      /\ n \in Nat
      /\ CopySource'.data = S.data /\ CopySource'.pos = S.pos + n
      /\ S.pos <= Len(S.data) => S.pos + n <= Len(S.data)
      /\ n < Size(call.buf) => S.pos + n >= Len(S.data)
      /\ \A i \in 1 .. n : CopyBuffer'.data[i] = S.data[S.pos + i]
  BY <1>0, ReadFresh DEF CopySource, CopyBuffer
<1>2. CopyTarget' = T /\ Original' = Original /\ CopyGoal' = CopyGoal
  BY <1>0, <1>1 DEF CopyTarget, OthersKept, Original, CopyGoal
<1>3. /\ T.pos + 0 = S.pos /\ S.pos <= Len(S.data)
      /\ \A i \in 1 .. T.pos : T.data[i] = CopyGoal[i]
      /\ Len(T.data) = IF call.ret = "rc_done" THEN Len(S.data) ELSE T.pos
      /\ S.data = IF call.ret = "rd_free" THEN Images(Original) ELSE Original
  BY DEF CopyGoing
<1>4. call.ret \in {"ic_saved", "ex_saved"} => Unwritten'
  <2>1. call.ret \in {"ic_saved", "ex_saved"} => call.from = h /\ Unwritten
    BY <1>0 DEF CopyGoing, StreamInv, CallOK, Copying
  <2>2. CASE call.ret \in {"ic_saved", "ex_saved"} /\ h = Std
    <3>1. obj'["stdout"] = obj["stdout"]
      BY <1>1, <2>1, <2>2 DEF OthersKept, Objects, Source
    <3> QED BY <2>1, <2>2, <3>1 DEF Unwritten, Out, Sink
  <2> QED BY <2>2 DEF Unwritten
<1>5. Size(call.buf) \in Nat /\ Size(call.buf) >= 2
  BY <1>0, SizeType
<1>6. CopyGoal \in Text /\ Len(CopyGoal) = Len(S.data)
  BY <1>0, XlatType DEF CopyGoal
<1> HIDE DEF T, S, n
<1>7. CopyGoing'
  <2>1. /\ T.pos + n = S.pos + n /\ T.pos = S.pos /\ n >= 0
        /\ S.pos + n <= Len(S.data)
    BY <1>0, <1>1, <1>3
  <2> QED BY <1>1, <1>2, <1>3, <1>4, <2>1 DEF CopyGoing, n
<1>8. n = 0 => T.data = CopyGoal /\ CopySource'.pos = Len(S.data)
  <2> SUFFICES ASSUME n = 0 PROVE T.data = CopyGoal /\ CopySource'.pos = Len(S.data)
    OBVIOUS
  <2>1. S.pos = Len(S.data) /\ T.pos = Len(S.data) /\ Len(T.data) = Len(S.data)
    BY <1>0, <1>1, <1>3, <1>5
  <2>2. T.data = CopyGoal
    BY <1>0, <1>3, <1>6, <2>1, TextEqual
  <2> QED BY <1>0, <1>1, <2>1, <2>2
<1> QED BY <1>1, <1>2, <1>7, <1>8 DEF T, S, n

(* The end of a copy: the target holds what it should. *)
LEMMA CopyEnds ==
  ASSUME StreamInv, PathInv, BufferInv, FileInv, pc = "copy_read", CopyGoing,
         CopyBuffer.pos = 0, FileRead(call.from, call.buf), Jump(call.ret, "OK"),
         CopyBuffer'.pos = 0
  PROVE  FileInv'
<1>0. /\ call.from \in Handles /\ call.buf \in Buffers /\ StoreOK
      /\ Source(call.from) \in Objects /\ Sink(call.to) \in Objects
      /\ Source(call.from) # Sink(call.to) /\ call.xlat \in BOOLEAN
      /\ pc \in Copying /\ Stage = call.ret /\ h \in Files \cup {Std}
  BY CopyPlaces DEF Copying, Stage
<1>1. UNCHANGED <<call, h, orig, req, todo>> /\ Original' = Original
  BY JumpFacts DEF Original, Jump
<1>2. /\ CopyTarget' = CopyTarget /\ CopySource'.data = CopySource.data
      /\ CopyTarget.data = CopyGoal /\ CopySource'.pos = Len(CopySource.data)
      /\ CopyGoing' /\ CopySource.data = IF call.ret = "rd_free" THEN Images(Original) ELSE Original
  BY <1>1, CopyGoesOn DEF CopyGoing
<1>3. /\ BuffersKept(call.buf)
      /\ call.buf = IF call.ret = "rc_done" THEN "iconv" ELSE "main"
      /\ call.xlat => call.ret = "returned"
      /\ CallOK /\ call.ret \in ReturnPoints
  BY <1>0, ReadStore, AtCopy DEF PathInv, CallsOK, StreamInv, Copying
<1>3a. call.ret # "returned" => CopyGoal = CopySource.data
  BY <1>3 DEF CopyGoal
<1>4. Clean /\ call.ret # "rc_done" => mem'["iconv"].pos = 0
  <2>1. call.ret \notin IconvLoop \cup {"rc_from", "rc_to", "rc_trunc"}
    BY <1>3 DEF ReturnPoints, IconvLoop
  <2>2. Clean /\ call.ret # "rc_done" => mem["iconv"].pos = 0
    BY <1>0, <2>1 DEF FileInv, IconvBufferOK, PathInv, ErrorsOK, Copying
  <2> QED BY <1>3, <2>2 DEF BuffersKept, Buffers
<1>5. call.buf = "main" => MainSize' = 0
  BY <1>1 DEF CopyBuffer, MainSize
<1>6. CASE call.from = h /\ call.to = h /\ h = Std
  <2>1. Out' = CopyTarget /\ By' = By
    BY <1>1, <1>2, <1>6 DEF Out, CopyTarget, By
  <2>2. CASE call.ret = "finish"
    <3>1. By = "none" /\ CopyGoal = Original
      BY <1>0, <1>2, <1>3a, <2>2 DEF PathInv, CallsOK, By
    <3>2. Out'.data = Expected(By', Original')
      BY <1>1, <1>2, <2>1, <3>1 DEF Expected
    <3> QED BY <1>4, <2>2, <3>2, FileJump DEF IconvLoop, Copying, Untried
  <2>3. CASE call.ret = "refuse"
    <3>1. CopyGoal = Original
      BY <1>2, <1>3a, <2>3
    <3> QED BY <1>1, <1>2, <1>4, <2>1, <2>3, <3>1, FileJump DEF IconvLoop, Copying, Untried
  <2>4. CASE call.ret = "returned"
    <3>1. /\ Head(todo) = "builtin"
          /\ req.kind = "known" /\ todo # <<>>
          /\ req.builtin \in {"identity", "xlat"}
          /\ call.xlat <=> req.builtin = "xlat"
      BY <1>0, <2>4, <1>3 DEF PathInv, CallsOK, TodoOK, HeadsOK, CallOK
    <3>2. Out'.data = Expected(By', Original')
      <4>1. CASE req.builtin = "identity"
        <5>1. By = "none" /\ CopyGoal = Original
          BY <1>2, <2>4, <3>1, <4>1 DEF By, CopyGoal
        <5> QED BY <1>1, <1>2, <2>1, <5>1 DEF Expected
      <4>2. CASE req.builtin = "xlat"
        <5>1. By = "builtin" /\ CopyGoal = Xlat(Original)
          BY <1>2, <2>4, <3>1, <4>2 DEF By, CopyGoal
        <5> QED BY <1>1, <1>2, <2>1, <5>1 DEF Expected
      <4> QED BY <3>1, <4>1, <4>2
    <3> QED BY <1>4, <2>4, <3>2, FileJump DEF IconvLoop, Copying, Untried
  <2> QED BY <1>0, <1>3, <1>6, <2>2, <2>3, <2>4, AtPlace DEF CallOK, Std, Temp
<1>7. CASE call.from = h /\ call.to = Temp /\ call.ret \in {"ic_saved", "ex_saved"}
  <2>1. Saved' /\ Unwritten' /\ MainSize' = 0
    <3>1. obj'[Temp] = CopyTarget
      BY <1>1, <1>2, <1>7 DEF CopyTarget, Sink, Std, Temp
    <3>2. CopyGoal = Original
      BY <1>2, <1>3a, <1>7
    <3> QED BY <1>1, <1>2, <1>3, <1>5, <1>7, <3>1, <3>2 DEF Saved, CopyGoing
  <2>2. CASE call.ret = "ic_saved"
    BY <1>4, <2>1, <2>2, FileJump DEF IconvLoop, Copying, Untried
  <2>3. CASE call.ret = "ex_saved"
    <3>1. h = Std
      BY <1>0, <2>3 DEF PathInv, HeadsOK
    <3>2. Drained'
      BY <1>1, <1>2, <1>7, <2>1 DEF Drained, In, CopySource
    <3> QED BY <1>1, <1>4, <2>1, <2>3, <3>1, <3>2, FileJump DEF IconvLoop, Copying, Untried
  <2> QED BY <1>7, <2>2, <2>3
<1>8. CASE call.from = Temp /\ call.to = h /\ call.ret \in {"rc_done", "rd_free"}
  <2>1. h # Std /\ Out' = CopyTarget /\ In' = CopyTarget
    <3>1. h # Std
      BY <1>0, <1>8, AtCopy DEF Copying, NamedOnly
    <3> QED BY <1>1, <1>2, <1>8, <3>1 DEF Out, In, CopyTarget, Source, Sink
  <2>2. CopyGoal = CopySource.data
    BY <1>3a, <1>8
  <2>3. CASE call.ret = "rc_done"
    <3>1. mem'["iconv"].pos = 0
      BY <1>1, <1>3, <2>3 DEF CopyBuffer
    <3> QED
      BY <1>1, <1>2, <2>1, <2>2, <2>3, <3>1, FileJump DEF IconvLoop, Copying, Untried
  <2>4. CASE call.ret = "rd_free"
    BY <1>1, <1>2, <1>4, <2>1, <2>2, <2>4, FileJump DEF IconvLoop, Copying, Untried
  <2> QED BY <1>8, <2>3, <2>4
<1> QED BY <1>3, <1>6, <1>7, <1>8 DEF CallOK

(* A read or a write that fails within a copy. *)
LEMMA CopyFails ==
  ASSUME StreamInv, PathInv, BufferInv, FileInv, pc \in Copying,
         Jump(call.ret, "IOFAIL"),
         call.ret = "refuse" => mem'["iconv"] = mem["iconv"]
  PROVE  FileInv'
<1>1. call.ret \in ReturnPoints \ {"stopped"} /\ Stage = call.ret
  BY AtCopy DEF Copying, Stage
<1>2. CASE call.ret # "refuse"
  BY <1>1, <1>2, FileFails DEF Copying
<1>3. CASE call.ret = "refuse"
  <2>1. Clean => mem["iconv"].pos = 0
    BY <1>1, <1>3 DEF FileInv, IconvBufferOK, PathInv, ErrorsOK, Copying, IconvLoop
  <2> QED BY <1>3, <2>1, FileJump DEF IconvLoop, Copying, Untried
<1> QED BY <1>2, <1>3

(* Nothing is left to copy after the external converter had standard input. *)
LEMMA CopySpoiled ==
  ASSUME StreamInv, PathInv, BufferInv, pc \in Copying, call.ret = "refuse", Spoiled,
         UNCHANGED <<call, h, orig, setup>>,
         \/ pc = "copy_write" /\ FileWrite(call.to, call.buf, CopyBytes)
         \/ pc = "copy_read" /\ FileRead(call.from, call.buf) /\ CopyBuffer.pos = 0
  PROVE  Spoiled' /\ CopyBuffer'.pos = 0 /\ mem'["iconv"] = mem["iconv"]
<1>0. /\ h = Std /\ call.from = h /\ call.to = h /\ call.buf = "main" /\ Drained
      /\ StoreOK /\ h \in Handles /\ "main" \in Buffers
      /\ Source(h) = "stdin" /\ Sink(h) = "stdout" /\ "stdin" \in Objects
      /\ obj["stdin"].pos \in Nat /\ MainSize = 0
  BY AtPlace DEF StreamInv, CallOK, PathInv, CallsOK, Copying, Spoiled, Drained, Buffers,
     Source, Sink, Objects
<1>1. CASE FileWrite(call.to, call.buf, CopyBytes)
  <2>1. OthersKept("stdout") /\ BuffersKept("main") /\ mem'["main"] = EmptyBuffer
    BY <1>0, <1>1, AtCopy, WriteStore DEF Copying
  <2>2. obj'["stdin"] = obj["stdin"] /\ mem'["main"].pos = 0 /\ mem'["iconv"] = mem["iconv"]
    BY <1>0, <2>1, SpecialBuffers DEF OthersKept, BuffersKept, Buffers
  <2> QED BY <1>0, <2>2 DEF Spoiled, Listed, Drained, In, MainSize, CopyBuffer
<1>2. CASE FileRead(call.from, call.buf)
  <2>1. /\ BuffersKept("main") /\ mem'["main"].pos \in Nat
        /\ obj'["stdin"].data = obj["stdin"].data
        /\ obj'["stdin"].pos = obj["stdin"].pos + mem'["main"].pos
        /\ obj["stdin"].pos <= Len(obj["stdin"].data)
             => obj["stdin"].pos + mem'["main"].pos <= Len(obj["stdin"].data)
    BY <1>0, <1>2, ReadFresh DEF MainSize
  <2>2. obj["stdin"].pos = Len(obj["stdin"].data)
    BY <1>0 DEF Drained, In
  <2>3. mem'["main"].pos = 0
    BY <1>0, <2>1, <2>2
  <2>4. obj'["stdin"].pos = obj["stdin"].pos /\ mem'["iconv"] = mem["iconv"]
    BY <1>0, <2>1, <2>3 DEF BuffersKept, Buffers
  <2> QED BY <1>0, <2>1, <2>3, <2>4 DEF Spoiled, Listed, Drained, In, MainSize, CopyBuffer
<1> QED BY <1>1, <1>2

(* A step to another point of the same copy. *)
LEMMA CopyStays ==
  ASSUME StreamInv, PathInv, BufferInv, FileInv, pc \in Copying,
         NEW l \in Copying, Jump(l, err),
         CopyGoing' \/ (call.ret = "refuse" /\ Spoiled'),
         l = "copy_read" => CopyBuffer'.pos = 0,
         call.ret # "rc_done" => mem'["iconv"] = mem["iconv"]
  PROVE  FileInv'
<1>1. /\ pc' = l \/ pc' = "stopped"
      /\ err' = err /\ UNCHANGED <<h, orig, call, fsize, done>> /\ Original' = Original
  BY JumpFacts DEF Jump, ctlrest, Original
<1>2. /\ err \in {"OK", "CANNOT"} /\ Stage = call.ret
      /\ call.ret \notin IconvLoop \cup {"rc_from", "rc_to", "rc_trunc"}
  BY AtCopy DEF PathInv, ErrorsOK, Stage, Copying, ReturnPoints, IconvLoop
<1>3. pc' = l => Stage' = call.ret
  BY <1>1 DEF Stage
<1>4. pc' = "stopped" => Stage' = "stopped"
  BY DEF Stage, Copying
<1>5. fsize' = Len(Original') /\ Clean' = Clean
  BY <1>1 DEF FileInv, MainOK, Clean, Copying
<1>6. MainOK'
  BY <1>1, <1>2, <1>5 DEF MainOK, Untried, Copying
<1>7. InPlaceOK' /\ IconvOK' /\ RecodeOK' /\ ExternOK'
  BY <1>1, <1>2 DEF InPlaceOK, IconvOK, RecodeOK, ExternOK, IconvLoop, Copying
<1>8. CopyOK'
  BY <1>1 DEF CopyOK, Copying
<1>9. IconvBufferOK'
  BY <1>1, <1>2, <1>3, <1>4, <1>5 DEF FileInv, IconvBufferOK, Copying
<1> QED BY <1>6, <1>7, <1>8, <1>9 DEF FileInv

LEMMA FileCopy ==
  ASSUME StreamInv, PathInv, BufferInv, Orderly, FileInv, Copy
  PROVE  FileInv'
<1>0. /\ pc \in Copying
      /\ CopyGoing \/ (call.ret = "refuse" /\ Spoiled)
      /\ pc = "copy_read" => CopyBuffer.pos = 0
      /\ call.buf \in Buffers /\ call.from \in Handles /\ call.to \in Handles
      /\ call.ret # "rc_done" => call.buf = "main"
      /\ StoreOK
  <2>1. pc \in Copying
    BY DEF Copy, CopyWrite, CopyRead, CopyFlushFails, Try, Copying
  <2> QED BY <2>1, CopyPlaces DEF FileInv, CopyOK, PathInv, CallsOK
<1>1. CASE CopyWrite
  <2>1. CASE /\ FileWrite(call.to, call.buf, CopyBytes) /\ Jump("copy_read", err)
             /\ pc = "copy_write"
    <3>1. UNCHANGED <<call, h, orig, setup>>
      BY <2>1, JumpFacts
    <3>2. CopyGoing' \/ (call.ret = "refuse" /\ Spoiled')
      BY <1>0, <2>1, <3>1, CopyWritten, CopySpoiled
    <3>3. mem'[call.buf].pos = 0 /\ BuffersKept(call.buf)
      BY <1>0, <2>1, AtCopy, WriteStore, SpecialBuffers DEF Copying
    <3>4. CopyBuffer'.pos = 0
      BY <3>1, <3>3 DEF CopyBuffer
    <3>5. call.ret # "rc_done" => mem'["iconv"] = mem["iconv"]
      BY <1>0, <3>3 DEF BuffersKept, Buffers
    <3> QED BY <1>0, <2>1, <3>2, <3>4, <3>5, CopyStays DEF Copying
  <2>2. CASE /\ FileWriteFails(call.to, call.buf, CopyBytes)
             /\ Jump(call.ret, "IOFAIL") /\ pc = "copy_write"
    BY <1>0, <2>2, CopyFails DEF FileWriteFails
  <2> QED BY <1>1, <2>1, <2>2 DEF CopyWrite, Try
<1>2. CASE CopyRead
  <2>1. CASE /\ FileRead(call.from, call.buf) /\ pc = "copy_read"
             /\ IF mem'[call.buf].pos = 0 THEN Jump(call.ret, "OK")
                                          ELSE Jump("copy_write", err)
    <3>1. UNCHANGED <<call, h, orig, setup>>
      BY <2>1, JumpFacts
    <3>2. CopyBuffer'.pos = mem'[call.buf].pos
      BY <3>1 DEF CopyBuffer
    <3>3. CASE CopyGoing
      <4>1. CASE CopyBuffer'.pos = 0
        BY <1>0, <2>1, <3>2, <3>3, <4>1, CopyEnds
      <4>2. CASE CopyBuffer'.pos # 0
        <5>1. CopyGoing'
          BY <1>0, <2>1, <3>1, <3>3, CopyGoesOn
        <5>2. call.ret # "rc_done" => mem'["iconv"] = mem["iconv"]
          BY <1>0, <2>1, ReadStore DEF BuffersKept, Buffers
        <5> QED BY <1>0, <2>1, <3>2, <4>2, <5>1, <5>2, CopyStays DEF Copying
      <4> QED BY <4>1, <4>2
    <3>4. CASE call.ret = "refuse" /\ Spoiled
      <4>1. Spoiled' /\ CopyBuffer'.pos = 0 /\ mem'["iconv"] = mem["iconv"]
        BY <1>0, <2>1, <3>1, <3>4, CopySpoiled
      <4>2. Jump("refuse", "OK") /\ Listed("extern")
        BY <2>1, <3>2, <3>4, <4>1 DEF Spoiled
      <4>3. Clean => mem["iconv"].pos = 0
        <5>1. Stage = "refuse"
          BY <1>0, <3>4 DEF Stage
        <5> QED BY <1>0, <5>1 DEF FileInv, IconvBufferOK, PathInv, ErrorsOK, Copying, IconvLoop
      <4> QED BY <1>0, <4>1, <4>2, <4>3, FileJump DEF IconvLoop, Copying, Untried
    <3> QED BY <1>0, <3>3, <3>4
  <2>2. CASE FileReadFails(call.from, call.buf) /\ Jump(call.ret, "IOFAIL")
    <3>1. call.ret = "refuse" => mem'["iconv"] = mem["iconv"]
      BY <1>0, <2>2, ReadFailsStore DEF BuffersKept, Buffers
    <3> QED BY <1>0, <2>2, <3>1, CopyFails
  <2> QED BY <1>2, <2>1, <2>2 DEF CopyRead
<1>3. CASE CopyFlushFails
  <2>1. "flush" \in faults /\ call.to = Std
    BY <1>3 DEF CopyFlushFails, FlushLoses
  <2>2. h = Std /\ cur \in DOMAIN setup.args
    <3>1. h = Std
      BY <1>0, <2>1, AtPlace DEF StreamInv, CallOK, Copying, Std, Temp
    <3>2. cur \in 1 .. Len(setup.args) /\ setup.args \in Seq(Files \cup {Std})
      BY <1>0, CurrentHandle, ConvertAssumption DEF Copying, StreamInv, TypeOK, Setups
    <3> QED BY <3>1, <3>2
  <2>3. UsesStd
    BY <2>2 DEF UsesStd, h
  <2> QED BY <2>1, <2>3 DEF Orderly
<1> QED BY <1>1, <1>2, <1>3 DEF Copy

(* A file that is converted in place is its own source and sink. *)
LEMMA OwnPlace ==
  ASSUME StreamInv, BufferInv, pc \notin {"main", "stopped"}, h # Std
  PROVE  /\ Source(h) = h /\ Sink(h) = h /\ h \in Objects /\ h \in Files /\ h \in Handles
         /\ In = obj[h] /\ Out = obj[h] /\ In \in Stream /\ In.data \in Text
         /\ In.pos \in Nat /\ Len(In.data) \in Nat
         /\ Original \in Text /\ Len(Original) \in Nat /\ StoreOK
         /\ h \notin {"stdin", "stdout", Temp} /\ Unwritten
         /\ MainSize \in Int /\ mem["main"].data \in Text
         /\ MainSize >= 0 => Len(mem["main"].data) = MainSize
<1>1. h \in Files \cup {Std} /\ Original \in Text
  BY CurrentHandle DEF Original, BufferInv, PlacesOK
<1>2. /\ h \in Files /\ h \in Objects /\ h \in Handles /\ h \notin {"stdin", "stdout", Temp}
      /\ MainSize \in Int /\ mem["main"].data \in Text /\ StoreOK
  BY AtWork DEF BufferInv
<1>3. Source(h) = h /\ Sink(h) = h
  BY <1>2 DEF Source, Sink
<1>4. Len(mem["main"].data) = IF MainSize = -1 THEN 0 ELSE MainSize
  BY <1>2 DEF StoreOK, BuffersOK, Buffers, MainSize
<1> QED BY <1>1, <1>2, <1>3, <1>4, StoreTypes, TextLen DEF In, Out, Unwritten

LEMMA FileBuiltin ==
  ASSUME StreamInv, PathInv, BufferInv, FileInv, BuiltinStep
  PROVE  FileInv'
<1> DEFINE K == obj[h]
           n == MainSize
<1>0. /\ pc \in BuiltinPoints /\ Stage = pc /\ pc \notin {"main", "finish", "stopped"}
      /\ err = "OK" /\ todo # <<>> /\ Head(todo) = "builtin" /\ req.kind = "known"
      /\ pc # "builtin" => req.builtin = "xlat" /\ h # Std
      /\ Clean => mem["iconv"].pos = 0
  <2>1. pc \in BuiltinPoints
    BY DEF BuiltinStep, Builtin, BuiltinSeek, BuiltinRead, BuiltinSeekBack, BuiltinWrite,
       BuiltinSync, Try, BuiltinPoints
  <2>2. Stage = pc /\ pc \notin {"main", "finish", "stopped"} /\ err = "OK"
        /\ Head(todo) = "builtin" /\ req.kind = "known" /\ todo # <<>>
    BY <2>1 DEF Stage, Copying, BuiltinPoints, PathInv, ErrorsOK, HeadsOK, ConverterPoints,
       ReturnPoints, StreamInv, BeforeConverters, BetweenFiles
  <2>3. pc # "builtin" => req.builtin = "xlat" /\ h # Std
    BY <2>1, <2>2 DEF BuiltinPoints, PathInv, HeadsOK, BufferInv, PlacesOK, NamedOnly
  <2>4. Clean => mem["iconv"].pos = 0
    BY <2>1, <2>2 DEF BuiltinPoints, FileInv, IconvBufferOK, IconvLoop
  <2> QED BY <2>1, <2>2, <2>3, <2>4
<1>1. pc # "builtin" =>
        /\ Source(h) = h /\ Sink(h) = h /\ h \in Objects /\ h \in Handles
        /\ In = K /\ Out = K /\ K \in Stream /\ K.data \in Text
        /\ K.pos \in Nat /\ Len(K.data) \in Nat
        /\ Original \in Text /\ Len(Original) \in Nat
        /\ n \in Int /\ mem["main"].data \in Text
        /\ n >= 0 => Len(mem["main"].data) = n
  BY <1>0, OwnPlace
<1>2. StoreOK /\ h \in Handles
  BY <1>0, AtWork DEF BufferInv
<1>3. CASE Builtin
  <2>0. pc = "builtin" /\ Sampled
    BY <1>3 DEF Builtin, FileInv, MainOK, Untried
  <2>1. CASE UNCHANGED fbvars /\ Jump("returned", "CANNOT")
    <3>1. Sampled' /\ mem'["iconv"] = mem["iconv"]
      BY <2>0, <2>1, JumpFacts, FileKept DEF fbvars
    <3> QED BY <1>0, <2>1, <3>1, FileJump DEF IconvLoop, Copying, Untried
  <2>2. CASE req.builtin = "identity" /\ h # Std /\ UNCHANGED fbvars /\ Jump("returned", "OK")
    <3>1. By = "none" /\ By' = By /\ Original' = Original /\ Out' = Out
      BY <1>0, <2>2, JumpFacts, FileKept DEF fbvars, By
    <3>2. Out = In /\ In.data = Original
      BY <2>0, <2>2 DEF Out, In, Source, Sink, Sampled
    <3>3. Out'.data = Expected(By', Original')
      BY <3>1, <3>2 DEF Expected
    <3>4. mem'["iconv"] = mem["iconv"]
      BY <2>2 DEF fbvars
    <3> QED BY <1>0, <2>2, <3>3, <3>4, FileJump DEF IconvLoop, Copying, Untried
  <2>3. CASE /\ h = Std /\ UNCHANGED fbvars
             /\ Call(h, h, req.builtin = "xlat", "main", "returned")
    <3>1. CopyGoing' /\ mem'["iconv"] = mem["iconv"]
      BY <1>0, <2>0, <2>3, StdCopy DEF fbvars
    <3> QED BY <1>0, <2>3, <3>1, FileCall DEF IconvLoop
  <2>4. CASE /\ h # Std /\ mem' = [mem EXCEPT !["main"] = EmptyBuffer]
             /\ UNCHANGED <<obj, open, linked, status>> /\ Jump("bi_seek", err)
    <3>1. mem'["main"].pos = 0 /\ mem'["iconv"] = mem["iconv"]
      BY <1>2, <2>4, SetBuffer, SpecialBuffers DEF Buffers, BuffersKept
    <3>2. Original' = Original /\ In' = In /\ h' = h
      BY <2>4, JumpFacts DEF In, Original
    <3>3. Emptied'
      BY <2>0, <2>4, <3>1, <3>2 DEF Emptied, Sampled, MainSize, Unwritten
    <3> QED BY <1>0, <2>4, <3>1, <3>3, FileJump DEF IconvLoop, Copying, Untried
  <2> QED BY <1>3, <2>1, <2>2, <2>3, <2>4 DEF Builtin
<1>4. CASE BuiltinSeek
  <2>1. CASE FileSeek(h, 0) /\ Jump("bi_read", err) /\ pc = "bi_seek"
    <3>1. obj'[h].pos = 0 /\ obj'[h].data = K.data /\ mem' = mem
      BY <1>1, <1>2, <2>1, SeekStep
    <3>2. h' = h /\ Original' = Original /\ In' = obj'[h]
      BY <1>1, <2>1, JumpFacts DEF In, Original
    <3>3. K.data = Original
      BY <1>1, <2>1 DEF FileInv, InPlaceOK, Emptied
    <3>4. HalfWay(In.pos)'
      BY <3>1, <3>2, <3>3 DEF HalfWay
    <3> QED BY <1>0, <2>1, <3>1, <3>4, FileJump DEF IconvLoop, Copying, Untried
  <2>2. CASE Jump("returned", "IOFAIL")
    BY <1>0, <2>2, FileFails DEF ReturnPoints
  <2> QED BY <1>4, <2>1, <2>2 DEF BuiltinSeek, Try
<1>5. CASE BuiltinRead
  <2>1. CASE /\ FileRead(h, "main") /\ pc = "bi_read"
             /\ IF mem'["main"].pos = 0 THEN Jump("returned", "OK") ELSE Jump("bi_back", err)
    <3> DEFINE m == mem'["main"].pos
    <3>0. n = 0 /\ K.pos <= Len(K.data) /\ HalfWay(K.pos)
      BY <1>0, <1>1, <2>1 DEF BufferInv, PlacesOK, Seeked, Tight, FileInv, InPlaceOK
    <3>1. /\ BuffersKept("main") /\ m \in Nat
          /\ obj'[h].data = K.data /\ obj'[h].pos = K.pos + m
          /\ K.pos + m <= Len(K.data)
          /\ m < Size("main") => K.pos + m >= Len(K.data)
          /\ \A i \in 1 .. m : mem'["main"].data[i] = K.data[K.pos + i]
      BY <1>1, <1>2, <2>1, <3>0, ReadFresh DEF Buffers, MainSize
    <3>2. h' = h /\ orig' = orig /\ req' = req /\ todo' = todo /\ mem'["iconv"] = mem["iconv"]
      BY <2>1, <3>1, JumpFacts DEF Jump, ctlrest, BuffersKept, Buffers
    <3>3. Original' = Original /\ In' = obj'[h] /\ Out' = obj'[h] /\ By' = By
          /\ MainSize' = m
      BY <1>1, <2>1, <3>2 DEF In, Out, Original, By, MainSize
    <3>4. /\ Len(K.data) = Len(Original)
          /\ \A i \in 1 .. Len(Original) :
               K.data[i] = IF i <= K.pos THEN Xlat(Original)[i] ELSE Original[i]
      BY <1>1, <2>1, <3>0 DEF HalfWay
    <3>5. Size("main") >= 2 /\ Size("main") \in Nat
      BY SizeType DEF Buffers
    <3> HIDE DEF m, K, n
    <3>6. CASE m = 0
      <4>1. K.data = Xlat(Original)
        <5>1. K.pos = Len(K.data)
          BY <1>1, <2>1, <3>0, <3>1, <3>5, <3>6
        <5>2. Xlat(Original) \in Text /\ Len(Xlat(Original)) = Len(Original)
          BY <1>1, <2>1, XlatType
        <5> QED BY <1>1, <2>1, <3>4, <5>1, <5>2, TextEqual
      <4>2. By = "builtin"
        BY <1>0, <2>1 DEF By
      <4>3. Out'.data = Expected(By', Original')
        BY <3>1, <3>3, <4>1, <4>2 DEF Expected
      <4>4. Jump("returned", "OK")
        BY <2>1, <3>6 DEF m
      <4> QED BY <1>0, <3>2, <4>3, <4>4, FileJump DEF IconvLoop, Copying, Untried
    <3>7. CASE m # 0
      <4>1. Jump("bi_back", "OK")
        BY <1>0, <2>1, <3>7 DEF m
      <4>2. In'.pos - MainSize' = K.pos /\ In'.data = K.data
        BY <1>1, <2>1, <3>1, <3>3
      <4>3. HalfWay(In.pos - MainSize)'
        BY <3>3, <3>4, <4>2 DEF HalfWay
      <4>4. \A i \in 1 .. m : mem'["main"].data[i] = Original[K.pos + i]
        BY <1>1, <2>1, <3>1, <3>4, SMTT(30)
      <4>5. Holds(In.pos - MainSize)'
        BY <3>1, <3>3, <3>4, <4>2, <4>4 DEF Holds
      <4> QED BY <1>0, <3>2, <4>1, <4>3, <4>5, FileJump DEF IconvLoop, Copying, Untried
    <3> QED BY <3>6, <3>7
  <2>2. CASE Jump("returned", "IOFAIL")
    BY <1>0, <2>2, FileFails DEF ReturnPoints
  <2> QED BY <1>5, <2>1, <2>2 DEF BuiltinRead
<1>6. CASE BuiltinSeekBack
  <2>1. CASE FileSeek(h, obj[h].pos - mem["main"].pos) /\ Jump("bi_write", err) /\ pc = "bi_back"
    <3> DEFINE p == K.pos - n
    <3>0. n <= K.pos /\ n >= 0 /\ K.pos <= Len(K.data)
      BY <1>0, <1>1, <2>1, AtWork DEF BufferInv, PlacesOK, Seeked, Tight, ReturnPoints
    <3>1. p \in Nat /\ p <= Len(K.data)
      BY <1>1, <2>1, <3>0
    <3>2. obj'[h].pos = p /\ obj'[h].data = K.data /\ mem' = mem
      BY <1>1, <1>2, <2>1, <3>1, SeekStep DEF MainSize
    <3>3. h' = h /\ Original' = Original /\ In' = obj'[h] /\ MainSize' = n
      BY <1>1, <2>1, <3>2, JumpFacts DEF In, Original, MainSize
    <3>4. HalfWay(p) /\ Holds(p)
      BY <1>1, <2>1 DEF FileInv, InPlaceOK
    <3> HIDE DEF p
    <3>5. HalfWay(In.pos)'
      BY <1>1, <2>1, <3>2, <3>3, <3>4 DEF HalfWay
    <3>6. Holds(In.pos)'
      BY <3>2, <3>3, <3>4 DEF Holds
    <3> QED BY <1>0, <2>1, <3>2, <3>5, <3>6, FileJump DEF IconvLoop, Copying, Untried
  <2>2. CASE Jump("returned", "IOFAIL")
    BY <1>0, <2>2, FileFails DEF ReturnPoints
  <2> QED BY <1>6, <2>1, <2>2 DEF BuiltinSeekBack, Try
<1>7. CASE BuiltinWrite
  <2>1. CASE /\ FileWrite(h, "main", Xlat(mem["main"].data)) /\ Jump("bi_sync", err)
             /\ pc = "bi_write"
    <3> DEFINE bytes == Xlat(mem["main"].data)
               r == Overwritten(K, bytes)
    <3>0. n >= 0 /\ K.pos <= Len(K.data) /\ Tight(Sink(h)) /\ HalfWay(K.pos) /\ Holds(K.pos)
      BY <1>0, <1>1, <2>1, AtWork DEF BufferInv, PlacesOK, Seeked, Tight, ReturnPoints,
         FileInv, InPlaceOK
    <3>1. bytes \in Text /\ Len(bytes) = n
      BY <1>1, <2>1, <3>0, XlatType
    <3>2. obj'[h] = r /\ BuffersKept("main")
      BY <1>1, <1>2, <2>1, <3>0, <3>1, WriteStore DEF Buffers
    <3>3. /\ r.pos = K.pos + n
          /\ Len(r.data) = IF r.pos >= Len(K.data) THEN r.pos ELSE Len(K.data)
          /\ \A i \in 1 .. K.pos : r.data[i] = K.data[i]
          /\ \A i \in 1 .. n : r.data[K.pos + i] = bytes[i]
          /\ \A i \in r.pos + 1 .. Len(K.data) : r.data[i] = K.data[i]
      BY <1>1, <2>1, <3>0, <3>1, OverwrittenFacts
    <3>4. h' = h /\ Original' = Original /\ In' = obj'[h] /\ mem'["iconv"] = mem["iconv"]
      BY <1>1, <2>1, <3>2, JumpFacts DEF In, Original, BuffersKept, Buffers
    <3>5. /\ Len(K.data) = Len(Original)
          /\ \A i \in 1 .. Len(Original) :
               K.data[i] = IF i <= K.pos THEN Xlat(Original)[i] ELSE Original[i]
          /\ K.pos + n <= Len(Original)
          /\ \A i \in 1 .. n : mem["main"].data[i] = Original[K.pos + i]
      BY <1>1, <2>1, <3>0 DEF HalfWay, Holds
    <3>6. \A i \in 1 .. n : bytes[i] = Xlat(Original)[K.pos + i]
      <4> TAKE i \in 1 .. n
      <4> HIDE DEF K, n
      <4>1. i \in 1 .. Len(mem["main"].data) /\ K.pos + i \in 1 .. Len(Original)
        BY <1>1, <2>1, <3>0, <3>5
      <4> QED BY <1>1, <2>1, <3>5, <4>1, XlatAt
    <3> HIDE DEF r, bytes, K, n
    <3>7. Len(r.data) = Len(Original) /\ r.pos \in Nat /\ r.pos <= Len(Original)
      BY <1>1, <2>1, <3>0, <3>3, <3>5
    <3>8. \A i \in 1 .. Len(Original) :
            r.data[i] = IF i <= r.pos THEN Xlat(Original)[i] ELSE Original[i]
      <4> TAKE i \in 1 .. Len(Original)
      <4>1. CASE i <= K.pos
        BY <1>1, <2>1, <3>0, <3>3, <3>5, <4>1
      <4>2. CASE i > K.pos /\ i <= r.pos
        <5>1. i - K.pos \in 1 .. n /\ K.pos + (i - K.pos) = i
          BY <1>1, <2>1, <3>0, <3>3, <4>2
        <5> QED BY <3>3, <3>6, <4>2, <5>1
      <4>3. CASE i > r.pos
        <5>1. i \in r.pos + 1 .. Len(K.data) /\ i > K.pos /\ ~(i <= K.pos) /\ ~(i <= r.pos)
          BY <1>1, <2>1, <3>0, <3>3, <3>5, <3>7, <4>3
        <5> QED BY <3>3, <3>5, <5>1
      <4> QED BY <1>1, <2>1, <3>7, <4>1, <4>2, <4>3
    <3>9. HalfWay(In.pos)'
      BY <3>2, <3>4, <3>7, <3>8 DEF HalfWay
    <3> QED BY <1>0, <2>1, <3>4, <3>9, FileJump DEF IconvLoop, Copying, Untried
  <2>2. CASE Jump("returned", "IOFAIL")
    BY <1>0, <2>2, FileFails DEF ReturnPoints
  <2> QED BY <1>7, <2>1, <2>2 DEF BuiltinWrite, Try
<1>8. CASE BuiltinSync
  <2>1. CASE FileSeek(h, obj[h].pos) /\ Jump("bi_read", err) /\ pc = "bi_sync"
    <3>0. K.pos <= Len(K.data) /\ HalfWay(K.pos)
      BY <1>0, <1>1, <2>1 DEF BufferInv, PlacesOK, Seeked, Tight, FileInv, InPlaceOK
    <3>1. obj'[h].pos = K.pos /\ obj'[h].data = K.data /\ mem' = mem
      BY <1>1, <1>2, <2>1, <3>0, SeekStep
    <3>2. h' = h /\ Original' = Original /\ In' = obj'[h]
      BY <1>1, <2>1, JumpFacts DEF In, Original
    <3>3. HalfWay(In.pos)'
      BY <1>1, <2>1, <3>0, <3>1, <3>2 DEF HalfWay
    <3> QED BY <1>0, <2>1, <3>1, <3>3, FileJump DEF IconvLoop, Copying, Untried
  <2>2. CASE Jump("returned", "IOFAIL")
    BY <1>0, <2>2, FileFails DEF ReturnPoints
  <2> QED BY <1>8, <2>1, <2>2 DEF BuiltinSync, Try
<1> QED BY <1>3, <1>4, <1>5, <1>6, <1>7, <1>8 DEF BuiltinStep
-----------------------------------------------------------------------------
(* The loop of convert_iconv(), as texts: reading moves bytes from the file *)
(* to the buffer, converting moves a character to the output.               *)
LEMMA RestFacts ==
  ASSUME NEW s \in Text, NEW k \in Nat
  PROVE  /\ Rest(s, k) \in Text
         /\ Len(Rest(s, k)) = IF k < Len(s) THEN Len(s) - k ELSE 0
         /\ k >= Len(s) => Rest(s, k) = <<>>
         /\ Rest(s, 0) = s
<1>1. Rest(s, k) \in Text /\ Len(Rest(s, k)) = IF k < Len(s) THEN Len(s) - k ELSE 0
  BY TextBehind, TextLen DEF Rest
<1>2. k >= Len(s) => Rest(s, k) = <<>>
  BY <1>1, TextLen
<1>3. Rest(s, 0) = s
  BY TextFull DEF Rest
<1> QED BY <1>1, <1>2, <1>3

LEMMA PullsMore ==
  ASSUME NEW c \in Text, NEW t \in Text, NEW p \in Nat, NEW s \in Text,
         p + Len(s) <= Len(t), \A i \in 1 .. Len(s) : s[i] = t[p + i]
  PROVE  Rest(c \o s, 0) \o Rest(t, p + Len(s)) = Rest(c, 0) \o Rest(t, p)
<1> DEFINE q == p + Len(s)
           u == Rest(t, q)
<1>1. q \in Nat /\ Len(t) \in Nat /\ Len(s) \in Nat /\ p <= q /\ q <= Len(t)
  BY TextLen
<1>2. s = SubSeq(t, p + 1, q)
  <2>1. /\ SubSeq(t, p + 1, q) \in Text
        /\ Len(SubSeq(t, p + 1, q)) = Len(s)
        /\ \A i \in 1 .. Len(s) : SubSeq(t, p + 1, q)[i] = t[p + i]
    BY <1>1, TextBehind, SMTT(30)
  <2> QED BY <2>1, TextEqual
<1>3. s \o u = Rest(t, p)
  <2>1. /\ p + 1 \in Nat /\ p + 1 >= 1 /\ p + 1 <= q + 1
        /\ q <= Len(t) /\ Len(t) <= Len(t)
    BY <1>1
  <2> HIDE DEF q
  <2>2. SubSeq(t, p + 1, q) \o SubSeq(t, q + 1, Len(t)) = SubSeq(t, p + 1, Len(t))
    BY <1>1, <2>1, TextSplit
  <2> QED BY <1>2, <2>2 DEF Rest
<1>4. c \o s \in Text /\ Rest(c \o s, 0) = c \o s /\ Rest(c, 0) = c /\ u \in Text
  BY <1>1, TextConcat, RestFacts
<1> HIDE DEF u, q
<1>5. (c \o s) \o u = c \o (s \o u)
  BY <1>4, TextAssociative
<1> QED BY <1>3, <1>4, <1>5 DEF u, q

LEMMA ImageOne ==
  ASSUME NEW q \in Text, Len(q) = 1
  PROVE  Images(q) = Image(q[1])
<1>1. q # <<>> /\ SubSeq(q, 1, Len(q) - 1) = <<>>
  <2>1. q # <<>>
    BY TextLen
  <2>2. SubSeq(q, 1, Len(q) - 1) = <<>>
    BY DEF Text
  <2> QED BY <2>1, <2>2
<1>2. q[1] \in Byte /\ Image(q[1]) \in Text
  <2>1. q[1] \in Byte
    BY TextLen, SMTT(30)
  <2> QED BY <2>1, ImageType
<1>3. Images(q) = Images(SubSeq(q, 1, Len(q) - 1)) \o Image(q[Len(q)])
  BY <1>1, ImagesLast
<1>4. Images(q) = <<>> \o Image(q[1])
  BY <1>1, <1>3, ImagesEmpty
<1> QED BY <1>2, <1>4, TextEmpty

LEMMA CharImage ==
  ASSUME NEW s \in Text, NEW k \in Nat, k < Len(s), CharAt(s, k + 1) > 0
  PROVE  LET n == CharAt(s, k + 1)
         IN /\ n \in Nat /\ k + n <= Len(s)
            /\ Images(SubSeq(s, k + 1, k + n)) = Image(s[k + 1])
            /\ Image(s[k + 1]) \in Text
<1> DEFINE n == CharAt(s, k + 1)
           p == SubSeq(s, k + 1, k + n)
<1>0. k + 1 \in 1 .. Len(s) /\ Len(s) \in Nat
  BY TextLen
<1>1. /\ n \in {1, 2}
      /\ n = 2 => k + 1 < Len(s) /\ s[k + 2][2] = "t"
  <2>1. /\ n \in {-1, 0, 1, 2}
        /\ n = 2 => k + 1 < Len(s) /\ s[(k + 1) + 1][2] = "t"
    BY <1>0, CharFacts
  <2> QED BY <2>1
<1>2. \A i \in 1 .. Len(s) : s[i] \in Byte /\ Image(s[i]) \in Text
  BY TextLen, ImageType
<1>3. k + n \in Int /\ k + n <= Len(s)
  BY <1>0, <1>1
<1>4. p \in Text /\ Len(p) = n /\ \A i \in 1 .. n : p[i] = s[k + i]
  BY <1>0, <1>1, <1>3, TextBehind
<1> HIDE DEF p
<1>6. CASE n = 1
  <2>1. Images(p) = Image(p[1])
    BY <1>4, <1>6, ImageOne
  <2>2. p[1] = s[k + 1]
    BY <1>4, <1>6
  <2>3. Images(SubSeq(s, k + 1, k + n)) = Image(s[k + 1]) /\ Image(s[k + 1]) \in Text
    BY <1>0, <1>2, <2>1, <2>2 DEF p
  <2> HIDE DEF n
  <2> QED BY <1>3, <1>6, <2>3 DEF n
<1>7. CASE n = 2
  <2>1. p # <<>> /\ p[1] = s[k + 1] /\ p[2] = s[k + 2] /\ p[2][2] = "t"
    BY <1>1, <1>4, <1>7, TextLen
  <2>2. Image(p[2]) = <<>>
    BY <2>1 DEF Image
  <2> DEFINE q == SubSeq(p, 1, 1)
  <2>3. q \in Text /\ Len(q) = 1 /\ q[1] = p[1]
    <3>1. Len(p) = 2 /\ 1 <= Len(p)
      BY <1>4, <1>7
    <3>2. Len(q) = 1 /\ q[1] = p[1]
      BY <1>4, <3>1 DEF Text
    <3>3. q \in Text
      BY <1>4, <3>1, TextPart
    <3> QED BY <3>2, <3>3
  <2> HIDE DEF q
  <2>4. Images(q) = Image(p[1]) /\ Image(p[1]) \in Text
    BY <1>0, <1>2, <2>1, <2>3, ImageOne
  <2>5. Images(p) = Images(q) \o Image(p[2])
    <3>1. Images(p) = Images(SubSeq(p, 1, Len(p) - 1)) \o Image(p[Len(p)])
      BY <1>4, <2>1, ImagesLast
    <3>2. Len(p) = 2 /\ Len(p) - 1 = 1
      BY <1>4, <1>7
    <3> QED BY <3>1, <3>2 DEF q
  <2>6. Images(p) = Image(s[k + 1])
    BY <2>1, <2>2, <2>4, <2>5, TextEmpty
  <2> QED BY <1>0, <1>2, <1>3, <1>7, <2>6 DEF p
<1> QED BY <1>1, <1>6, <1>7

LEMMA RestSplits ==
  ASSUME NEW c \in Text, NEW k \in Nat, NEW q \in Nat, k <= q, q <= Len(c)
  PROVE  /\ SubSeq(c, k + 1, q) \in Text /\ Rest(c, q) \in Text
         /\ Rest(c, k) = SubSeq(c, k + 1, q) \o Rest(c, q)
<1>1. /\ Len(c) \in Nat /\ Len(c) <= Len(c)
      /\ k + 1 \in Nat /\ k + 1 >= 1 /\ k + 1 <= q + 1
  BY TextLen
<1>2. SubSeq(c, k + 1, q) \in Text /\ Rest(c, q) \in Text
  BY <1>1, TextBehind DEF Rest
<1>3. SubSeq(c, k + 1, q) \o SubSeq(c, q + 1, Len(c)) = SubSeq(c, k + 1, Len(c))
  BY <1>1, TextSplit
<1> QED BY <1>2, <1>3 DEF Rest
-----------------------------------------------------------------------------
(* A step within the loop of convert_iconv(). *)
LEMMA FileLoops ==
  ASSUME PathInv, FileInv, pc \in IconvLoop, pc' \in {"ic_conv", "ic_full", "stopped"},
         err' = "OK", h' = h, UNCHANGED <<setup, orig, fsize, done>>,
         Saved', Clean => Flow(ToCome(used))',
         eof' => obj'[Temp].pos >= Len(obj'[Temp].data)
  PROVE  FileInv'
<1>1. Original' = Original /\ Clean' = Clean /\ fsize' = Len(Original')
      /\ (pc' # "stopped" => Stage' \in IconvLoop)
  BY DEF Original, Clean, FileInv, MainOK, IconvLoop, Stage, Copying
<1>2. MainOK' /\ InPlaceOK' /\ CopyOK' /\ IconvBufferOK' /\ RecodeOK' /\ ExternOK'
  BY <1>1 DEF MainOK, InPlaceOK, CopyOK, IconvBufferOK, RecodeOK, ExternOK, Untried,
     Copying, IconvLoop
<1>3. IconvOK'
  BY <1>1 DEF IconvOK, IconvLoop
<1> QED BY <1>2, <1>3 DEF FileInv

(* What an iconv step finds. *)
LEMMA AtIconv ==
  ASSUME StreamInv, PathInv, BufferInv, FileInv, IconvStep
  PROVE  /\ pc \in IconvPoints /\ Stage = pc /\ pc \notin {"main", "finish", "stopped"}
         /\ req.kind = "known" /\ todo # <<>> /\ Head(todo) = "iconv" /\ By = "iconv"
         /\ pc \notin ReturnPoints => err = "OK"
         /\ StoreOK /\ h \in Handles /\ h \in Files \cup {Std} /\ Temp \in Handles
         /\ Source(h) \in Objects /\ Sink(h) \in Objects /\ Temp \in Objects
         /\ Source(h) # Temp /\ Sink(h) # Temp /\ Source(Temp) = Temp /\ Sink(Temp) = Temp
         /\ h # Std => Source(h) = h /\ Sink(h) = h /\ h \in Objects
         /\ Original \in Text /\ Len(Original) \in Nat
         /\ obj[Temp].data \in Text /\ obj[Temp].pos \in Nat
         /\ obj[Temp].pos <= Len(obj[Temp].data) /\ Len(obj[Temp].data) \in Nat
         /\ Out \in Stream /\ Out.data \in Text /\ Out.pos \in Nat
         /\ mem["main"].data \in Text /\ MainSize \in Int
         /\ MainSize >= 0 => Len(mem["main"].data) = MainSize
         /\ mem["iconv"].data \in Text /\ mem["iconv"].pos \in Int
         /\ mem["iconv"].pos >= 0 => Len(mem["iconv"].data) = mem["iconv"].pos
         /\ used \in Nat
         /\ Clean /\ err # "IOFAIL"
              /\ pc \notin IconvLoop \cup {"rc_from", "rc_to", "rc_trunc", "rc_done"}
              => mem["iconv"].pos = 0
<1>1. pc \in IconvPoints
  BY DEF IconvStep, IconvStart, IconvDies, IconvTemp, IconvSave, IconvSaved, IconvRewind,
     IconvTruncate, IconvRead, IconvReadAborts, IconvCharacter, IconvFull, IconvBlockEnd,
     IconvWrite, IconvMalformed, Recover, RecoverSeekFrom, RecoverSeekTo, RecoverTruncate,
     RecoverDone, IconvFree, FreeTemp, Try, IconvPoints, IconvLoop
<1>2. Stage = pc /\ pc \notin {"main", "finish", "stopped"} /\ Head(todo) = "iconv"
      /\ req.kind = "known" /\ todo # <<>> /\ (pc \notin ReturnPoints => err = "OK")
  BY <1>1 DEF Stage, Copying, IconvPoints, IconvLoop, PathInv, ErrorsOK, HeadsOK,
     ConverterPoints, StreamInv, BeforeConverters, BetweenFiles
<1>3. h \in Handles /\ h \in Files \cup {Std} /\ Temp \in Handles /\ Temp \in Objects
      /\ StoreOK /\ used \in Nat /\ Original \in Text
  BY <1>2, CurrentHandle DEF BufferInv, PlacesOK, Handles, Objects, Original
<1>4. /\ Source(h) \in Objects /\ Sink(h) \in Objects
      /\ Source(h) # Temp /\ Sink(h) # Temp /\ Source(Temp) = Temp /\ Sink(Temp) = Temp
      /\ h # Std => Source(h) = h /\ Sink(h) = h /\ h \in Objects
  BY <1>3, Places, FilebufAssumption DEF Source, Sink, Std, Temp, Objects
<1>5. \A b \in Buffers : mem[b].pos >= 0 => Len(mem[b].data) = mem[b].pos
  <2>1. \A b \in Buffers : Len(mem[b].data) = IF mem[b].pos = -1 THEN 0 ELSE mem[b].pos
    BY <1>3 DEF StoreOK, BuffersOK
  <2> QED BY <2>1
<1>6. Clean /\ err # "IOFAIL"
        /\ pc \notin IconvLoop \cup {"rc_from", "rc_to", "rc_trunc", "rc_done"}
        => mem["iconv"].pos = 0
  BY <1>1, <1>2 DEF FileInv, IconvBufferOK, IconvPoints
<1>7. By = "iconv"
  BY <1>2 DEF By
<1>8. obj[Temp].pos <= Len(obj[Temp].data)
  BY <1>3 DEF StoreOK, ObjectsOK, Tight
<1> QED
  BY <1>1, <1>2, <1>3, <1>4, <1>5, <1>6, <1>7, <1>8, StoreTypes, TextLen
     DEF Out, MainSize, Buffers

(* The main buffer of the loop goes to the output. *)
LEMMA FlowWritten ==
  ASSUME StreamInv, PathInv, BufferInv, FileInv, IconvStep, pc \in {"ic_full", "ic_write"},
         FileWrite(h, "main", mem["main"].data), h' = h, orig' = orig
  PROVE  /\ mem'["main"].pos = 0 /\ mem'["main"].data = <<>>
         /\ mem'["iconv"] = mem["iconv"]
         /\ obj'[Temp] = obj[Temp] /\ Saved'
         /\ Flow(ToCome(0)) => Flow(ToCome(0))'
         /\ Flow(ToCome(used)) /\ used' = used => Flow(ToCome(used))'
<1> DEFINE m == mem["main"].data
           r == Overwritten(Out, m)
<1>0. /\ StoreOK /\ h \in Handles /\ Sink(h) \in Objects /\ Temp \in Objects /\ Sink(h) # Temp
      /\ Out \in Stream /\ m \in Text /\ Out.data \in Text /\ Out.pos \in Nat
      /\ h # Std => Sink(h) = h
  BY AtIconv
<1>1. Tight(Sink(h))
  BY <1>0 DEF StoreOK, ObjectsOK, BufferInv, PlacesOK, Seeked, Sink
<1>2. /\ OthersKept(Sink(h)) /\ BuffersKept("main")
      /\ obj'[Sink(h)] = r /\ mem'["main"] = EmptyBuffer
  BY <1>0, <1>1, WriteStore DEF Out, Buffers
<1>3. /\ mem'["main"].pos = 0 /\ mem'["main"].data = <<>> /\ mem'["iconv"] = mem["iconv"]
      /\ obj'[Temp] = obj[Temp] /\ Out' = r /\ Original' = Original
  BY <1>0, <1>2, SpecialBuffers DEF OthersKept, BuffersKept, Buffers, Out, Original
<1>4. /\ Out.pos = Len(Out.data) => r.data = Out.data \o m /\ r.pos = Len(r.data)
      /\ r.data \in Text
  <2>1. Out.pos <= Len(Out.data) /\ Len(m) \in Nat
    BY <1>0, <1>1, TextLen DEF Tight, Out
  <2>2. /\ r \in Stream /\ r.pos = Out.pos + Len(m)
        /\ Len(r.data) = IF r.pos >= Len(Out.data) THEN r.pos ELSE Len(Out.data)
        /\ Out.pos = Len(Out.data) => r.data = Out.data \o m
    BY <1>0, <2>1, OverwrittenFacts
  <2> HIDE DEF r, m
  <2>3. Out.pos = Len(Out.data) => r.pos = Len(r.data)
    BY <1>0, <2>1, <2>2
  <2> QED BY <2>2, <2>3 DEF Stream
<1>5. Saved'
  BY <1>3 DEF FileInv, IconvOK, IconvLoop, Saved
<1>6. ToCome(0)' = ToCome(0) /\ (used' = used => ToCome(used)' = ToCome(used))
  BY <1>3 DEF ToCome
<1> HIDE DEF r, m
<1>7. r.data \o <<>> = r.data
  BY <1>4, TextEmpty
<1>8. \A x : Flow(x) => /\ r.pos = Len(r.data)
                        /\ Images(Original) = (r.data \o <<>>) \o Images(x)
  BY <1>4, <1>7 DEF Flow, m
<1>9. \A x : Flow(x) => /\ Out'.pos = Len(Out'.data)
                        /\ Images(Original') = (Out'.data \o mem'["main"].data) \o Images(x)
  BY <1>3, <1>8
<1>10. Flow(ToCome(0)) => Flow(ToCome(0))'
  BY <1>6, <1>9 DEF Flow
<1>11. Flow(ToCome(used)) /\ used' = used => Flow(ToCome(used))'
  BY <1>6, <1>9 DEF Flow
<1> QED BY <1>3, <1>5, <1>10, <1>11

(* The loop begins with everything still to come. *)
LEMMA FlowStarts ==
  ASSUME StoreOK', h' = h, Out'.data = <<>>, Out'.pos = 0, mem'["main"].data = <<>>,
         mem'["iconv"].data = <<>>, Saved', obj'[Temp].pos = 0, Original \in Text,
         Original' = Original
  PROVE  Flow(ToCome(0))'
<1>1. ToCome(0)' = Original
  <2>1. ToCome(0)' = Rest(<<>>, 0) \o Rest(Original, 0)
    BY DEF ToCome, Saved
  <2>2. <<>> \in Text
    BY TextEmpty
  <2> QED BY <2>1, <2>2, RestFacts, TextEmpty
<1>2. Images(Original) \in Text
  BY ImagesType
<1>3. (<<>> \o <<>>) \o Images(Original) = Images(Original)
  <2>1. <<>> \o <<>> = <<>>
    BY TextEmpty
  <2> QED BY <1>2, <2>1, TextEmpty
<1>4. Len(Out'.data) = 0
  BY TextEmpty
<1> QED BY <1>1, <1>3, <1>4 DEF Flow

(* The next block of the temporary file. *)
LEMMA FlowRead ==
  ASSUME StreamInv, PathInv, BufferInv, FileInv, IconvStep, pc = "ic_read",
         FileRead(Temp, "iconv"), h' = h, orig' = orig, used' = 0,
         Flow(ToCome(0)), mem["iconv"].pos >= 0
  PROVE  Flow(ToCome(used))'
<1> DEFINE s == Fetched(Temp, "iconv")
           T == obj[Temp]
           c == mem["iconv"].data
<1>0. /\ StoreOK /\ Temp \in Handles /\ Sink(h) \in Objects /\ Temp \in Objects
      /\ Sink(h) # Temp /\ Source(Temp) = Temp
      /\ T.data \in Text /\ T.pos \in Nat /\ T.pos <= Len(T.data) /\ c \in Text
  BY AtIconv
<1>1. /\ s \in Text
      /\ \A i \in 1 .. Len(s) : s[i] = T.data[T.pos + i]
      /\ T.pos + Len(s) <= Len(T.data)
  BY <1>0, FetchedFacts DEF Buffers
<1>2. /\ OthersKept(Temp) /\ BuffersKept("iconv")
      /\ obj'[Temp].data = T.data /\ obj'[Temp].pos = T.pos + Len(s)
      /\ mem'["iconv"] = Filled(Temp, "iconv")
  BY <1>0, ReadStore DEF Buffers
<1>3. mem'["iconv"].data = c \o s
  <2>1. mem["iconv"].pos # -1
    OBVIOUS
  <2> QED BY <1>0, <1>2, <2>1, FilledFacts DEF Buffers
<1>4. Out' = Out /\ mem'["main"] = mem["main"] /\ Original' = Original
  BY <1>0, <1>2 DEF OthersKept, BuffersKept, Buffers, Out, Original
<1> HIDE DEF s, T, c
<1>5. Rest(c \o s, 0) \o Rest(T.data, T.pos + Len(s)) = Rest(c, 0) \o Rest(T.data, T.pos)
  BY <1>0, <1>1, PullsMore
<1>6. ToCome(used)' = ToCome(0)
  BY <1>2, <1>3, <1>5 DEF ToCome, T, c
<1> QED BY <1>4, <1>6 DEF Flow

(* One character. *)
LEMMA FlowTakes ==
  ASSUME StreamInv, PathInv, BufferInv, FileInv, IconvStep, pc = "ic_conv",
         used < mem["iconv"].pos, CharAt(mem["iconv"].data, used + 1) > 0,
         UNCHANGED <<obj, h, orig>>, mem'["iconv"] = mem["iconv"],
         mem'["main"].data = mem["main"].data \o Image(mem["iconv"].data[used + 1]),
         used' = used + CharAt(mem["iconv"].data, used + 1), Flow(ToCome(used))
  PROVE  Flow(ToCome(used))'
<1> DEFINE c == mem["iconv"].data
           m == mem["main"].data
           z == Rest(obj[Temp].data, obj[Temp].pos)
           n == CharAt(c, used + 1)
           image == Image(c[used + 1])
<1>0. /\ c \in Text /\ m \in Text /\ Out.data \in Text /\ used \in Nat /\ used < Len(c)
      /\ obj[Temp].data \in Text /\ obj[Temp].pos \in Nat
  <2>1. /\ c \in Text /\ m \in Text /\ Out.data \in Text /\ used \in Nat
        /\ obj[Temp].data \in Text /\ obj[Temp].pos \in Nat
        /\ mem["iconv"].pos \in Int
        /\ mem["iconv"].pos >= 0 => Len(c) = mem["iconv"].pos
    BY AtIconv
  <2> QED BY <2>1
<1>1. z \in Text
  BY <1>0, RestFacts
<1>2. n > 0
  OBVIOUS
<1> HIDE DEF c, m, z
<1>3. /\ n \in Nat /\ used + n <= Len(c)
      /\ Images(SubSeq(c, used + 1, used + n)) = image /\ image \in Text
  BY <1>0, <1>2, CharImage
<1> HIDE DEF n, image
<1>4. (Out.data \o m) \o Images(Rest(c, used) \o z)
        = (Out.data \o (m \o image)) \o Images(Rest(c, used + n) \o z)
  <2> DEFINE p == SubSeq(c, used + 1, used + n)
             r == Rest(c, used + n)
             y == r \o z
             w == Images(y)
  <2>1. p \in Text /\ r \in Text /\ Rest(c, used) = p \o r
    <3>1. used <= used + n /\ used + n \in Nat
      BY <1>0, <1>3
    <3> QED BY <1>0, <1>3, <3>1, RestSplits
  <2>2. Images(p) = image
    BY <1>3
  <2> HIDE DEF p, r
  <2>3. (p \o r) \o z = p \o y /\ y \in Text
    BY <1>1, <2>1, TextAssociative, TextConcat, ZenonT(60)
  <2> HIDE DEF y
  <2>4. Images(p \o y) = Images(p) \o w /\ w \in Text
    BY <2>1, <2>3, ImagesConcat, ImagesType
  <2> HIDE DEF w
  <2> DEFINE o == Out.data
             x == o \o m
  <2>5. o \in Text /\ m \in Text /\ image \in Text
    BY <1>0, <1>3
  <2>6. (o \o m) \o (image \o w) = (o \o (m \o image)) \o w
    <3>1. x \in Text /\ image \in Text /\ w \in Text
      BY <2>4, <2>5, TextConcat
    <3> HIDE DEF o
    <3>2. (o \o m) \o image = o \o (m \o image)
      BY <2>5, TextAssociative
    <3> HIDE DEF x
    <3>3. (x \o image) \o w = x \o (image \o w)
      BY <3>1, TextAssociative
    <3> QED BY <3>2, <3>3 DEF x
  <2>7. Images(Rest(c, used) \o z) = image \o w
    BY <2>1, <2>2, <2>3, <2>4
  <2>8. w = Images(Rest(c, used + n) \o z)
    BY DEF w, y, r
  <2> QED BY <2>6, <2>7, <2>8
<1>5. ToCome(used) = Rest(c, used) \o z /\ ToCome(used)' = Rest(c, used + n) \o z
      /\ Out' = Out /\ Original' = Original /\ mem'["main"].data = m \o image
  BY DEF ToCome, Out, Original, c, m, z, n, image
<1> QED BY <1>4, <1>5 DEF Flow, m

LEMMA FileIconv ==
  ASSUME StreamInv, PathInv, BufferInv, FileInv, IconvStep
  PROVE  FileInv'
<1>0. /\ pc \in IconvPoints /\ Stage = pc /\ pc \notin {"main", "finish", "stopped"}
      /\ req.kind = "known" /\ todo # <<>> /\ Head(todo) = "iconv" /\ By = "iconv"
      /\ pc \notin ReturnPoints => err = "OK"
      /\ StoreOK /\ h \in Handles /\ h \in Files \cup {Std} /\ Temp \in Handles
      /\ Source(h) \in Objects /\ Sink(h) \in Objects /\ Temp \in Objects
      /\ Source(h) # Temp /\ Sink(h) # Temp /\ Source(Temp) = Temp /\ Sink(Temp) = Temp
      /\ h # Std => Source(h) = h /\ Sink(h) = h /\ h \in Objects
      /\ Clean /\ err # "IOFAIL"
           /\ pc \notin IconvLoop \cup {"rc_from", "rc_to", "rc_trunc", "rc_done"}
           => mem["iconv"].pos = 0
  BY AtIconv
<1>1. /\ Original \in Text /\ Len(Original) \in Nat
      /\ obj[Temp].data \in Text /\ obj[Temp].pos \in Nat
      /\ obj[Temp].pos <= Len(obj[Temp].data) /\ Len(obj[Temp].data) \in Nat
      /\ mem["main"].data \in Text /\ MainSize \in Int
      /\ MainSize >= 0 => Len(mem["main"].data) = MainSize
      /\ mem["iconv"].data \in Text /\ mem["iconv"].pos \in Int
      /\ mem["iconv"].pos >= 0 => Len(mem["iconv"].data) = mem["iconv"].pos
      /\ used \in Nat
  BY AtIconv
<1>2. CASE IconvStart
  <2>0. pc = "iconv" /\ err = "OK" /\ Sampled
    BY <1>0, <1>2 DEF IconvStart, FileInv, MainOK, Untried, ReturnPoints
  <2>1. ASSUME NEW l \in {"ic_temp", "returned"}, NEW e \in {"OK", "CANNOT"}, Jump(l, e),
               l = "returned" => e = "CANNOT"
        PROVE  FileInv'
    <3>1. Sampled' /\ mem'["iconv"] = mem["iconv"]
      BY <1>2, <2>0, <2>1, JumpFacts, FileKept DEF fbvars, IconvStart
    <3> QED BY <1>0, <2>0, <2>1, <3>1, FileJump DEF IconvLoop, Copying, Untried
  <2> QED BY <1>2, <2>0, <2>1 DEF IconvStart
<1>3. CASE IconvDies \/ IconvReadAborts
  <2>1. Jump("stopped", err) /\ obj' = obj
    BY <1>3 DEF IconvDies, IconvReadAborts, Stop
  <2> QED BY <1>0, <2>1, FileStops
<1>4. CASE IconvTemp
  <2>1. CASE FileTemporary(TRUE) /\ Jump("ic_save", err) /\ pc = "ic_temp"
    <3>1. OthersKept(Temp) /\ obj'[Temp] = EmptyBuffer /\ mem' = mem
      BY <1>0, <2>1, TempStore DEF FileTemporary
    <3>2. Sampled /\ err = "OK"
      BY <1>0, <2>1 DEF FileInv, MainOK, Untried, ReturnPoints
    <3>3. Sampled'
      BY <1>0, <2>1, <3>1, <3>2, JumpFacts, FileKept DEF OthersKept
    <3> QED BY <1>0, <2>1, <3>1, <3>2, <3>3, FileJump DEF IconvLoop, Copying, Untried
  <2>2. CASE Jump("ic_free", "IOFAIL")
    BY <1>0, <2>2, FileFails DEF ReturnPoints
  <2>3. CASE FileTemporaryExits /\ Stop
    BY <1>0, <2>3, FileStops DEF FileTemporaryExits, Stop
  <2> QED BY <1>4, <2>1, <2>2, <2>3 DEF IconvTemp, Try
<1>5. CASE IconvSave
  <2>1. CASE /\ FileWrite(Temp, "main", mem["main"].data) /\ pc = "ic_save"
             /\ Call(h, Temp, FALSE, "main", "ic_saved")
    <3> DEFINE m == mem["main"].data
               r == Overwritten(EmptyBuffer, m)
               n == MainSize
    <3>0. /\ err = "OK" /\ Sampled /\ obj[Temp] = EmptyBuffer
          /\ In.data = Original /\ Unwritten
          /\ n = In.pos /\ In.pos <= Len(Original)
          /\ \A i \in 1 .. n : m[i] = Original[i]
      BY <1>0, <2>1 DEF FileInv, MainOK, IconvOK, Untried, ReturnPoints, Sampled
    <3>1. In.pos \in Nat
      BY <1>0, StoreTypes DEF In
    <3>2. /\ EmptyBuffer.pos = 0 /\ EmptyBuffer \in Stream /\ EmptyBuffer.data = <<>>
          /\ Len(EmptyBuffer.data) = 0
      BY SpecialBuffers
    <3>3. Tight(Sink(Temp))
      BY <1>0, <3>0, <3>2 DEF Tight
    <3>4. /\ OthersKept(Temp) /\ BuffersKept("main") /\ obj'[Temp] = r
          /\ mem'["main"] = EmptyBuffer
      BY <1>0, <1>1, <2>1, <3>0, <3>3, WriteStore DEF Buffers
    <3>5. Len(m) = n /\ n \in Nat /\ m \in Text
      BY <1>1, <3>0, <3>1
    <3>6. r.pos = n /\ Len(r.data) = n /\ \A i \in 1 .. n : r.data[i] = m[i]
      <4> DEFINE e == EmptyBuffer
      <4>0. e \in Stream /\ e.pos = 0 /\ e.pos <= Len(e.data) /\ Len(e.data) = 0
        BY <3>2
      <4>1. r = Overwritten(e, m)
        BY DEF r
      <4> HIDE DEF m, n, r, e
      <4>2. /\ r.pos = e.pos + Len(m)
            /\ Len(r.data) = IF r.pos >= Len(e.data) THEN r.pos ELSE Len(e.data)
            /\ \A i \in 1 .. Len(m) : r.data[e.pos + i] = m[i]
        BY <3>5, <4>0, <4>1, OverwrittenFacts
      <4>3. r.pos = n /\ Len(r.data) = n
        BY <3>5, <4>0, <4>2
      <4>4. \A i \in 1 .. n : r.data[i] = m[i]
        BY <3>5, <4>0, <4>2
      <4> QED BY <4>3, <4>4
    <3>7. /\ h' = h /\ orig' = orig /\ call'.from = h /\ call'.to = Temp
          /\ call'.xlat = FALSE /\ call'.buf = "main" /\ call'.ret = "ic_saved"
      BY <2>1, CallFacts
    <3>8. /\ CopySource' = In /\ CopyTarget' = r /\ CopyBuffer'.pos = 0
          /\ CopyGoal' = In.data /\ Original' = Original
      <4>1. obj'[Source(h)] = obj[Source(h)]
        BY <1>0, <3>4 DEF OthersKept
      <4> QED
        BY <1>0, <3>2, <3>4, <3>7, <4>1
           DEF CopySource, CopyTarget, CopyBuffer, CopyGoal, In, Original
    <3>9. Unwritten'
      <4>1. obj'[Sink(h)] = obj[Sink(h)]
        BY <1>0, <3>4 DEF OthersKept
      <4> QED BY <3>0, <3>7, <4>1 DEF Unwritten, Out
    <3> HIDE DEF r, m, n
    <3>10. CopyGoing'
      BY <3>0, <3>1, <3>5, <3>6, <3>7, <3>8, <3>9 DEF CopyGoing
    <3>11. Clean => mem'["iconv"].pos = 0
      BY <1>0, <2>1, <3>0, <3>4 DEF BuffersKept, Buffers, IconvLoop
    <3> QED BY <1>0, <2>1, <3>0, <3>10, <3>11, FileCall DEF IconvLoop
  <2>2. CASE Jump("ic_free", "IOFAIL")
    BY <1>0, <2>2, FileFails DEF ReturnPoints
  <2> QED BY <1>5, <2>1, <2>2 DEF IconvSave
<1>6. CASE IconvSaved
  <2>1. CASE Jump("ic_free", "IOFAIL")
    BY <1>0, <2>1, FileFails DEF ReturnPoints
  <2>2. CASE /\ pc = "ic_saved" /\ err = "OK" /\ Jump("ic_rewind", err)
             /\ \/ h = Std /\ UNCHANGED fbvars
                \/ h # Std /\ FileSeek(h, 0)
    <3>1. Saved /\ MainSize = 0 /\ Unwritten
      BY <2>2 DEF FileInv, IconvOK
    <3>2. /\ mem' = mem /\ obj'[Temp] = obj[Temp] /\ h' = h /\ orig' = orig
          /\ h = Std => obj'[Sink(h)] = obj[Sink(h)]
      <4>1. CASE h # Std /\ FileSeek(h, 0)
        <5>1. 0 <= Len(obj[h].data)
          BY <1>0, <4>1, StoreTypes
        <5>2. OthersKept(h) /\ mem' = mem
          BY <1>0, <4>1, <5>1, SeekStep
        <5> QED BY <1>0, <2>2, <4>1, <5>2, JumpFacts DEF OthersKept
      <4> QED BY <2>2, <4>1, JumpFacts DEF fbvars
    <3>3. (Saved /\ MainSize = 0 /\ Unwritten)'
      BY <3>1, <3>2 DEF Saved, MainSize, Unwritten, Original, Out
    <3>4. Clean => mem'["iconv"].pos = 0
      BY <1>0, <2>2, <3>2 DEF IconvLoop
    <3> QED BY <1>0, <2>2, <3>3, <3>4, FileJump DEF IconvLoop, Copying, Untried
  <2> QED BY <1>6, <2>1, <2>2 DEF IconvSaved, Try
<1>7. CASE IconvRewind
  <2>1. CASE pc = "ic_rewind" /\ FileSeek(Temp, 0) /\ Jump("ic_trunc", err)
    <3>1. Saved /\ MainSize = 0 /\ Unwritten /\ err = "OK"
      BY <1>0, <2>1 DEF FileInv, IconvOK, ReturnPoints
    <3>2. /\ OthersKept(Temp) /\ mem' = mem /\ obj'[Temp].pos = 0
          /\ obj'[Temp].data = obj[Temp].data /\ h' = h /\ orig' = orig
      BY <1>0, <1>1, <2>1, SeekStep, JumpFacts
    <3>3. obj'[Sink(h)] = obj[Sink(h)]
      BY <1>0, <3>2 DEF OthersKept
    <3>4. (Saved /\ MainSize = 0 /\ Unwritten)'
      BY <3>1, <3>2, <3>3 DEF Saved, MainSize, Unwritten, Original, Out
    <3>5. Clean => mem'["iconv"].pos = 0
      BY <1>0, <2>1, <3>1, <3>2 DEF IconvLoop
    <3> QED BY <1>0, <2>1, <3>1, <3>2, <3>4, <3>5, FileJump DEF IconvLoop, Copying, Untried
  <2>2. CASE Jump("ic_free", "IOFAIL")
    BY <1>0, <2>2, FileFails DEF ReturnPoints
  <2> QED BY <1>7, <2>1, <2>2 DEF IconvRewind, Try
<1>8. CASE IconvTruncate
  <2>1. CASE /\ pc = "ic_trunc" /\ Jump("ic_read", err)
             /\ \/ h = Std /\ UNCHANGED fbvars
                \/ h # Std /\ FileTruncate(h, 0)
    <3>1. Saved /\ MainSize = 0 /\ Unwritten /\ err = "OK" /\ obj[Temp].pos = 0
      BY <1>0, <2>1 DEF FileInv, IconvOK, ReturnPoints
    <3>2. /\ mem' = mem /\ obj'[Temp] = obj[Temp] /\ h' = h /\ orig' = orig /\ StoreOK'
          /\ Out'.data = <<>> /\ Out'.pos = 0
      <4>1. CASE h # Std /\ FileTruncate(h, 0)
        <5>1. h \in Files
          BY <1>0, <4>1
        <5>2. obj' = [obj EXCEPT ![h].data = Resized(@, h, 0)] /\ mem' = mem
          BY <4>1 DEF FileTruncate
        <5>3. ObjectsOK' /\ OthersKept(h) /\ obj'[h].pos = obj[h].pos /\ Len(obj'[h].data) = 0
          BY <1>0, <5>1, <5>2, TruncateStore
        <5>4. StoreOK' /\ obj[h].pos = 0
          BY <1>0, <2>1, <4>1, <5>2, <5>3, SameBuffers DEF StoreOK, BufferInv, PlacesOK, Rewound
        <5>5. obj'[h].data = <<>>
          <6>1. obj'[h].data \in Text
            BY <1>0, <4>1, <5>4 DEF StoreOK, ObjectsOK, Stream
          <6> QED BY <5>3, <6>1, TextLen
        <5> QED BY <1>0, <2>1, <4>1, <5>2, <5>3, <5>4, <5>5, JumpFacts DEF OthersKept, Out
      <4>2. CASE h = Std /\ UNCHANGED fbvars
        BY <1>0, <2>1, <3>1, <4>2, JumpFacts, SameStore DEF fbvars, Unwritten, Out
      <4> QED BY <2>1, <4>1, <4>2
    <3>3. Saved' /\ MainSize' = 0 /\ Original' = Original
      BY <3>1, <3>2 DEF Saved, MainSize, Original
    <3>4. Clean => mem'["iconv"].pos = 0 /\ mem'["iconv"].data = <<>>
      BY <1>0, <1>1, <2>1, <3>1, <3>2, TextLen DEF IconvLoop
    <3>5. mem'["main"].data = <<>>
      BY <1>1, <3>1, <3>2, TextLen
    <3>6. Clean => Flow(ToCome(0))'
      BY <1>1, <3>1, <3>2, <3>3, <3>4, <3>5, FlowStarts
    <3> QED
      BY <1>0, <2>1, <3>1, <3>3, <3>4, <3>6, FileJump DEF IconvLoop, Copying, Untried
  <2>2. CASE Jump("ic_free", "IOFAIL")
    BY <1>0, <2>2, FileFails DEF ReturnPoints
  <2> QED BY <1>8, <2>1, <2>2 DEF IconvTruncate, Try
<1>9. CASE IconvRead
  <2>0. pc = "ic_read" /\ err = "OK" /\ Saved /\ MainSize = 0
        /\ (Clean => Flow(ToCome(0)) /\ mem["iconv"].pos >= 0)
    BY <1>0, <1>9 DEF IconvRead, FileInv, IconvOK, IconvLoop, ReturnPoints
  <2>1. CASE Jump("ic_free", "IOFAIL")
    BY <1>0, <2>1, FileFails DEF ReturnPoints
  <2>2. CASE /\ FileRead(Temp, "iconv") /\ used' = 0
             /\ eof' = (mem'["iconv"].pos < IconvSize)
             /\ IF mem'["iconv"].pos = -1 THEN Goto("ic_free") /\ err' = "IOFAIL"
                                          ELSE Goto("ic_conv") /\ UNCHANGED err
             /\ UNCHANGED <<setup, orig, cur, req, todo, fsize, call, ok, done>>
    <3>1. h' = h /\ Original' = Original /\ Clean' = Clean
      BY <2>2 DEF h, Original, Clean
    <3>2. CASE err' = "IOFAIL" /\ pc' \in {"ic_free", "stopped"}
      <4>1. Stage' \notin IconvLoop /\ fsize' = Len(Original')
        BY <2>0, <2>2, <3>1, <3>2 DEF Stage, IconvLoop, Copying, FileInv, MainOK
      <4> QED
        BY <2>0, <2>2, <3>1, <3>2, <4>1 DEF FileInv, MainOK, InPlaceOK, CopyOK, IconvOK,
           IconvBufferOK, RecodeOK, ExternOK, Untried, Copying, IconvLoop
    <3>3. CASE err' = "OK" /\ pc' \in {"ic_conv", "stopped"}
      <4> DEFINE s == Fetched(Temp, "iconv")
      <4>1. Clean => Flow(ToCome(used))'
        BY <1>0, <2>0, <2>2, <3>1, FlowRead
      <4>2. /\ obj'[Temp].data = obj[Temp].data /\ obj'[Temp].pos = obj[Temp].pos + Len(s)
            /\ mem'["iconv"].pos = mem["iconv"].pos + Len(s) /\ Len(s) \in Nat
            /\ Len(s) < Size("iconv") - mem["iconv"].pos
                 => obj[Temp].pos + Len(s) >= Len(obj[Temp].data)
        BY <1>0, <2>2, ReadStore, FetchedFacts DEF Buffers
      <4>3. Size("iconv") = IconvSize /\ IconvSize \in Nat
        BY FilebufAssumption DEF Size
      <4> HIDE DEF s
      <4>4. eof' => obj'[Temp].pos >= Len(obj'[Temp].data)
        <5>1. eof' => mem'["iconv"].pos < IconvSize
          BY <2>2
        <5>2. /\ mem["iconv"].pos \in Int /\ obj[Temp].pos \in Nat
          BY <1>1
        <5>3. eof' => mem["iconv"].pos + Len(s) < IconvSize
          BY <4>2, <5>1
        <5>4. eof' => Len(s) < Size("iconv") - mem["iconv"].pos
          BY <4>2, <4>3, <5>2, <5>3
        <5> QED BY <4>2, <5>4
      <4>5. Saved'
        BY <2>0, <3>1, <4>2 DEF Saved
      <4> QED BY <2>0, <2>2, <3>1, <3>3, <4>1, <4>4, <4>5, FileLoops DEF IconvLoop
    <3> QED BY <2>0, <2>2, <3>2, <3>3 DEF Goto
  <2> QED BY <1>9, <2>1, <2>2 DEF IconvRead
<1>10. CASE IconvCharacter
  <2> DEFINE n == CharAt(mem["iconv"].data, used + 1)
             image == Image(mem["iconv"].data[used + 1])
  <2>0. /\ pc = "ic_conv" /\ err = "OK" /\ Saved /\ (Clean => Flow(ToCome(used)))
        /\ eof => obj[Temp].pos >= Len(obj[Temp].data)
    BY <1>0, <1>10 DEF IconvCharacter, FileInv, IconvOK, IconvLoop, ReturnPoints
  <2>1. /\ used < mem["iconv"].pos /\ n > 0
        /\ UNCHANGED <<obj, open, linked, status>>
        /\ UNCHANGED <<setup, orig, err, cur, req, todo, fsize, call, eof, ok, done>>
        /\ h' = h
    BY <1>10 DEF IconvCharacter, h
  <2>2. Saved'
    BY <2>0, <2>1 DEF Saved, Original
  <2>3. CASE /\ mem' = [mem EXCEPT !["main"] = [data |-> @.data \o image,
                                               pos |-> @.pos + Len(image)]]
             /\ used' = used + n /\ pc' = pc
    <3>1. mem'["iconv"] = mem["iconv"] /\ mem'["main"].data = mem["main"].data \o image
      BY <1>0, <2>3 DEF StoreOK, BuffersOK, Buffers
    <3>2. Clean => Flow(ToCome(used))'
      BY <1>10, <2>0, <2>1, <2>3, <3>1, FlowTakes
    <3> QED BY <2>0, <2>1, <2>2, <2>3, <3>2, FileLoops DEF IconvLoop
  <2>4. CASE Goto("ic_full") /\ UNCHANGED <<mem, used>>
    <3>1. Clean => Flow(ToCome(used))'
      BY <2>0, <2>1, <2>4 DEF Flow, ToCome, Out, Original
    <3> QED BY <2>0, <2>1, <2>2, <2>4, <3>1, FileLoops DEF IconvLoop, Goto
  <2> QED BY <1>10, <2>3, <2>4 DEF IconvCharacter
<1>11. CASE IconvFull
  <2>1. CASE /\ pc = "ic_full" /\ FileWrite(h, "main", mem["main"].data)
             /\ Jump("ic_conv", err)
    <3>0. /\ err = "OK" /\ (Clean => Flow(ToCome(used)))
          /\ eof => obj[Temp].pos >= Len(obj[Temp].data)
      BY <1>0, <2>1 DEF FileInv, IconvOK, IconvLoop, ReturnPoints
    <3>1. h' = h /\ orig' = orig /\ used' = used
      BY <2>1, JumpFacts
    <3>2. obj'[Temp] = obj[Temp] /\ Saved' /\ (Clean => Flow(ToCome(used))')
      BY <2>1, <3>0, <3>1, FlowWritten
    <3> QED BY <1>0, <2>1, <3>0, <3>2, FileJump DEF IconvLoop, Copying, Untried
  <2>2. CASE Jump("ic_free", "IOFAIL")
    BY <1>0, <2>2, FileFails DEF ReturnPoints
  <2> QED BY <1>11, <2>1, <2>2 DEF IconvFull, Try
<1>12. CASE IconvBlockEnd
  <2> DEFINE c == mem["iconv"].data
             rest == SubSeq(c, used + 1, Len(c))
  <2>0. /\ pc = "ic_conv" /\ err = "OK" /\ Saved /\ (Clean => Flow(ToCome(used)))
        /\ eof => obj[Temp].pos >= Len(obj[Temp].data)
        /\ used <= mem["iconv"].pos
        /\ used = mem["iconv"].pos \/ ~eof
        /\ mem' = [mem EXCEPT !["iconv"] = [data |-> rest, pos |-> Len(rest)]]
        /\ UNCHANGED <<obj, open, linked, status>> /\ Jump("ic_write", err)
    BY <1>0, <1>12 DEF IconvBlockEnd, FileInv, IconvOK, IconvLoop, ReturnPoints,
       BufferInv, PlacesOK
  <2>1. /\ rest = Rest(c, used) /\ rest \in Text /\ Len(rest) \in Nat
        /\ used = mem["iconv"].pos => Len(rest) = 0
        /\ Rest(rest, 0) = rest
    <3>1. c \in Text /\ Len(c) = mem["iconv"].pos
      BY <1>1, <2>0
    <3>2. rest = Rest(c, used)
      BY DEF Rest
    <3> HIDE DEF c, rest
    <3>3. rest \in Text /\ Len(rest) = IF used < Len(c) THEN Len(c) - used ELSE 0
      BY <1>1, <3>1, <3>2, RestFacts
    <3>4. used \in Nat /\ used <= Len(c)
      BY <1>1, <2>0, <3>1
    <3>5. Len(rest) = Len(c) - used
      BY <3>1, <3>3, <3>4, TextLen
    <3>6. Rest(rest, 0) = rest
      BY <3>3, RestFacts
    <3>7. Len(c) \in Nat
      BY <3>1, TextLen
    <3> QED BY <3>1, <3>2, <3>3, <3>4, <3>5, <3>6, <3>7
  <2>2. mem'["iconv"].data = rest /\ mem'["iconv"].pos = Len(rest) /\ mem'["main"] = mem["main"]
    BY <1>0, <2>0 DEF StoreOK, BuffersOK, Buffers
  <2>3. h' = h /\ Original' = Original /\ obj' = obj /\ Out' = Out
    BY <2>0, JumpFacts DEF Original, Out
  <2> HIDE DEF rest
  <2>4. Saved' /\ ToCome(0)' = ToCome(used)
    BY <2>0, <2>1, <2>2, <2>3 DEF Saved, ToCome
  <2>5. Clean => Flow(ToCome(0))'
    BY <2>0, <2>2, <2>3, <2>4 DEF Flow
  <2> QED
    BY <1>0, <2>0, <2>1, <2>2, <2>3, <2>4, <2>5, FileJump DEF IconvLoop, Copying, Untried
<1>13. CASE IconvWrite
  <2>0. pc = "ic_write"
    BY <1>13 DEF IconvWrite, Try
  <2>1. /\ err = "OK" /\ (Clean => Flow(ToCome(0)) /\ mem["iconv"].pos >= 0)
        /\ eof => obj[Temp].pos >= Len(obj[Temp].data) /\ mem["iconv"].pos = 0
    BY <1>0, <2>0 DEF FileInv, IconvOK, IconvLoop, ReturnPoints
  <2>2. CASE /\ FileWrite(h, "main", mem["main"].data)
             /\ Jump(IF eof THEN "ic_free" ELSE "ic_read", err)
    <3>1. h' = h /\ orig' = orig
      BY <2>2, JumpFacts
    <3>2. /\ mem'["main"].pos = 0 /\ mem'["main"].data = <<>>
          /\ mem'["iconv"] = mem["iconv"]
          /\ obj'[Temp] = obj[Temp] /\ Saved'
          /\ Flow(ToCome(0)) => Flow(ToCome(0))'
      BY <2>0, <2>2, <3>1, FlowWritten
    <3>3. MainSize' = 0
      BY <3>2 DEF MainSize
    <3>4. CASE eof
      <4>1. Clean => Out'.data = Images(Original')
        <5> SUFFICES ASSUME Clean PROVE Out'.data = Images(Original')
          OBVIOUS
        <5>1. ToCome(0)' = <<>>
          <6>1. Rest(mem'["iconv"].data, 0) = <<>> /\ Rest(obj'[Temp].data, obj'[Temp].pos) = <<>>
            <7> DEFINE c == mem["iconv"].data
                       z == obj[Temp].data
                       k == obj[Temp].pos
            <7>1. c \in Text /\ Len(c) = 0 /\ z \in Text /\ k \in Nat /\ k >= Len(z)
              BY <1>1, <2>1, <3>4
            <7> HIDE DEF c, z, k
            <7>2. Rest(c, 0) = <<>>
              BY <7>1, RestFacts
            <7>3. Rest(z, k) = <<>>
              BY <7>1, RestFacts
            <7> QED BY <3>2, <7>2, <7>3 DEF c, z, k
          <6> QED BY <6>1, TextEmpty DEF ToCome
        <5>2. Images(Original') = (Out'.data \o <<>>) \o <<>>
          BY <2>1, <3>2, <5>1, ImagesEmpty DEF Flow
        <5>3. Out'.data \in Text
          <6>1. StoreOK'
            <7>1. Tight(Sink(h))
              BY <1>0, <2>0 DEF StoreOK, ObjectsOK, BufferInv, PlacesOK, Seeked, Sink
            <7> QED BY <1>0, <1>1, <2>2, <7>1, WriteStore DEF Buffers
          <6>2. Out' = obj'[Sink(h)]
            BY <3>1 DEF Out
          <6> QED BY <1>0, <6>1, <6>2 DEF StoreOK, ObjectsOK, Stream
        <5> QED BY <5>2, <5>3, TextEmpty
      <4>2. Jump("ic_free", "OK")
        BY <2>1, <2>2, <3>4
      <4> QED BY <1>0, <2>1, <3>2, <3>4, <4>1, <4>2, FileJump DEF IconvLoop, Copying, Untried
    <3>5. CASE ~eof
      <4>1. Jump("ic_read", "OK")
        BY <2>1, <2>2, <3>5
      <4> QED
        BY <1>0, <2>1, <3>2, <3>3, <3>5, <4>1, FileJump DEF IconvLoop, Copying, Untried
    <3> QED BY <3>4, <3>5
  <2>3. CASE Jump("ic_free", "IOFAIL")
    BY <1>0, <2>3, FileFails DEF ReturnPoints
  <2> QED BY <1>13, <2>2, <2>3 DEF IconvWrite, Try
<1>14. CASE IconvMalformed
  <2>1. pc = "ic_conv" /\ UNCHANGED fbvars /\ err = "OK" /\ Saved
    BY <1>0, <1>14 DEF IconvMalformed, FileInv, IconvOK, IconvLoop, ReturnPoints
  <2>2. CASE Jump("ic_free", "IOFAIL")
    BY <1>0, <2>2, FileFails DEF ReturnPoints
  <2>3. CASE Jump("rc_from", err)
    <3>1. Saved'
      BY <2>1, <2>3, JumpFacts DEF Saved, Original, fbvars
    <3> QED BY <1>0, <2>1, <2>3, <3>1, FileJump DEF IconvLoop, Copying, Untried
  <2> QED BY <1>14, <2>2, <2>3 DEF IconvMalformed
<1>15. CASE RecoverSeekFrom
  <2>1. CASE pc = "rc_from" /\ FileSeek(Temp, 0) /\ Jump("rc_to", err)
    <3>1. Saved /\ err = "OK"
      BY <1>0, <2>1 DEF FileInv, IconvOK, ReturnPoints
    <3>2. obj'[Temp].pos = 0 /\ obj'[Temp].data = obj[Temp].data /\ h' = h /\ orig' = orig
      BY <1>0, <1>1, <2>1, SeekStep, JumpFacts
    <3>3. Saved'
      BY <3>1, <3>2 DEF Saved, Original
    <3> QED BY <1>0, <2>1, <3>1, <3>2, <3>3, FileJump DEF IconvLoop, Copying, Untried
  <2>2. CASE Jump("ic_free", "IOFAIL")
    BY <1>0, <2>2, FileFails DEF ReturnPoints
  <2> QED BY <1>15, <2>1, <2>2 DEF RecoverSeekFrom, Try
<1>16. CASE RecoverSeekTo
  <2>1. CASE pc = "rc_to" /\ FileSeek(h, 0) /\ Jump("rc_trunc", err)
    <3>1. Saved /\ err = "OK" /\ obj[Temp].pos = 0 /\ h # Std
      BY <1>0, <2>1 DEF FileInv, IconvOK, ReturnPoints, BufferInv, PlacesOK, NamedOnly
    <3>2. 0 <= Len(obj[h].data)
      BY <1>0, <3>1, StoreTypes
    <3>3. OthersKept(h) /\ h' = h /\ orig' = orig
      BY <1>0, <2>1, <3>1, <3>2, SeekStep, JumpFacts
    <3>4. obj'[Temp] = obj[Temp]
      BY <1>0, <3>1, <3>3 DEF OthersKept
    <3>5. Saved'
      BY <3>1, <3>3, <3>4 DEF Saved, Original
    <3> QED BY <1>0, <2>1, <3>1, <3>4, <3>5, FileJump DEF IconvLoop, Copying, Untried
  <2>2. CASE Jump("ic_free", "IOFAIL")
    BY <1>0, <2>2, FileFails DEF ReturnPoints
  <2> QED BY <1>16, <2>1, <2>2 DEF RecoverSeekTo, Try
<1>17. CASE RecoverTruncate
  <2>1. CASE /\ pc = "rc_trunc" /\ obj' = [obj EXCEPT ![h].data = Resized(@, h, fsize)]
             /\ mem' = [mem EXCEPT !["iconv"] = EmptyBuffer]
             /\ Call(Temp, h, FALSE, "iconv", "rc_done")
    <3>1. /\ Saved /\ err = "OK" /\ obj[Temp].pos = 0 /\ h # Std /\ h \in Files
          /\ fsize = Len(Original) /\ obj[h].pos = 0
      BY <1>0, <2>1 DEF FileInv, IconvOK, ReturnPoints, BufferInv, PlacesOK, NamedOnly, Rewound
    <3>2. OthersKept(h) /\ obj'[h].pos = obj[h].pos /\ Len(obj'[h].data) = fsize
      BY <1>0, <1>1, <2>1, <3>1, TruncateStore
    <3>3. mem'["iconv"].pos = 0
      BY <1>0, <2>1, SetBuffer, SpecialBuffers DEF Buffers
    <3>4. /\ h' = h /\ Original' = Original /\ call'.from = Temp /\ call'.to = h
          /\ call'.xlat = FALSE /\ call'.buf = "iconv" /\ call'.ret = "rc_done"
      BY <2>1, CallFacts DEF Original
    <3>5. CopySource' = obj[Temp] /\ CopyTarget' = obj'[h] /\ CopyBuffer'.pos = 0
      BY <1>0, <3>1, <3>2, <3>3, <3>4 DEF CopySource, CopyTarget, CopyBuffer, OthersKept
    <3>6. CopyGoing'
      BY <1>1, <3>1, <3>2, <3>4, <3>5 DEF CopyGoing, Saved
    <3> QED BY <1>0, <2>1, <3>1, <3>6, FileCall DEF IconvLoop
  <2>2. CASE Jump("ic_free", "IOFAIL")
    BY <1>0, <2>2, FileFails DEF ReturnPoints
  <2> QED BY <1>17, <2>1, <2>2 DEF RecoverTruncate
<1>18. CASE RecoverDone
  <2>1. pc = "rc_done" /\ UNCHANGED fbvars
    BY <1>18 DEF RecoverDone
  <2>2. CASE err = "OK" /\ Jump("ic_free", "MALFORM")
    <3>1. In.data = Original /\ mem["iconv"].pos = 0
      BY <2>1, <2>2 DEF FileInv, IconvOK
    <3>2. (In.data = Original)' /\ mem'["iconv"].pos = 0
      BY <2>1, <2>2, <3>1, JumpFacts DEF In, Original, fbvars
    <3> QED BY <1>0, <2>2, <3>2, FileJump DEF IconvLoop, Copying, Untried
  <2>3. CASE Jump("ic_free", "IOFAIL")
    BY <1>0, <2>3, FileFails DEF ReturnPoints
  <2> QED BY <1>18, <2>2, <2>3 DEF RecoverDone
<1>19. CASE IconvFree
  <2>1. /\ pc = "ic_free" /\ obj' = [obj EXCEPT ![Temp] = EmptyBuffer] /\ mem' = mem
        /\ Jump("returned", err)
    BY <1>19 DEF IconvFree, FreeTemp
  <2>2. OthersKept(Temp)
    BY <1>0, <2>1, TempStore
  <2>3. h' = h /\ Original' = Original /\ In' = In /\ Out' = Out /\ By' = By
    BY <1>0, <2>1, <2>2, JumpFacts DEF Original, In, Out, By, OthersKept
  <2>4. /\ err \in {"OK", "IOFAIL", "MALFORM"}
        /\ err = "OK" /\ Clean => Out.data = Images(Original)
        /\ err = "MALFORM" => In.data = Original
    BY <2>1 DEF FileInv, IconvOK, PathInv, ErrorsOK
  <2>5. err = "OK" /\ Clean => Out'.data = Expected(By', Original')
    BY <1>0, <2>3, <2>4 DEF Expected
  <2>6. Clean /\ err # "IOFAIL" => mem'["iconv"].pos = 0
    BY <1>0, <2>1 DEF IconvLoop
  <2> QED BY <1>0, <2>1, <2>3, <2>4, <2>5, <2>6, FileJump DEF IconvLoop, Copying, Untried
<1> QED
  BY <1>2, <1>3, <1>4, <1>5, <1>6, <1>7, <1>8, <1>9, <1>10, <1>11, <1>12, <1>13, <1>14,
     <1>15, <1>16, <1>17, <1>18, <1>19 DEF IconvStep, Recover

(* Where convert_recode() stands. *)
LEMMA AtRecode ==
  ASSUME StreamInv, PathInv, BufferInv, FileInv, pc \in RecodePoints
  PROVE  /\ Stage = pc /\ pc \notin {"main", "finish", "stopped"}
         /\ req.kind = "known" /\ todo # <<>> /\ Head(todo) = "recode" /\ By = "recode"
         /\ pc # "rd_free" => err = "OK"
         /\ StoreOK /\ h \in Handles /\ Temp \in Handles /\ Temp \in Objects
         /\ Source(Temp) = Temp /\ Sink(Temp) = Temp
         /\ Original \in Text /\ Len(Original) \in Nat
         /\ obj[Temp].data \in Text /\ obj[Temp].pos \in Nat
         /\ Clean /\ err # "IOFAIL" => mem["iconv"].pos = 0
         /\ pc \in {"rs_first", "rs_rest"} => h = Std
         /\ pc \in {"rd_temp", "rd_seek", "rd_task", "rd_file", "rd_rewind", "rd_trunc",
                    "rd_free"} => h # Std
<1>1. Stage = pc /\ pc \notin {"main", "finish", "stopped"} /\ pc \notin Copying
  BY DEF RecodePoints, Stage, Copying
<1>2. /\ req.kind = "known" /\ todo # <<>> /\ Head(todo) = "recode"
      /\ pc # "rd_free" => err = "OK"
  BY <1>1 DEF RecodePoints, PathInv, HeadsOK, ErrorsOK, ConverterPoints, ReturnPoints,
     StreamInv, BeforeConverters, BetweenFiles
<1>3. By = "recode"
  BY <1>2 DEF By
<1>4. StoreOK /\ h \in Handles /\ h \in Files \cup {Std}
  BY <1>1, AtWork DEF BufferInv
<1>5. Temp \in Handles /\ Temp \in Objects /\ Source(Temp) = Temp /\ Sink(Temp) = Temp
  BY FilebufAssumption DEF Handles, Objects, Source, Sink, Std, Temp
<1>6. Original \in Text /\ Len(Original) \in Nat
  <2>1. Original \in Text
    BY <1>4 DEF Original, BufferInv, PlacesOK
  <2> QED BY <2>1, TextLen
<1>7. obj[Temp].data \in Text /\ obj[Temp].pos \in Nat
  BY <1>4, <1>5, StoreTypes
<1>8. Clean /\ err # "IOFAIL" => mem["iconv"].pos = 0
  BY <1>1 DEF FileInv, IconvBufferOK, IconvLoop, RecodePoints
<1>9. pc \in {"rs_first", "rs_rest"} => h = Std
  BY <1>1 DEF PathInv, HeadsOK
<1>10. pc \in {"rd_temp", "rd_seek", "rd_task", "rd_file", "rd_rewind", "rd_trunc",
               "rd_free"} => h # Std
  BY DEF BufferInv, PlacesOK, NamedOnly
<1> QED BY <1>1, <1>2, <1>3, <1>4, <1>5, <1>6, <1>7, <1>8, <1>9, <1>10

LEMMA FileRecode ==
  ASSUME StreamInv, PathInv, BufferInv, FileInv, RecodeStep
  PROVE  FileInv'
<1>0. /\ pc \in RecodePoints
      /\ Stage = pc /\ pc \notin {"main", "finish", "stopped"}
      /\ req.kind = "known" /\ todo # <<>> /\ Head(todo) = "recode" /\ By = "recode"
      /\ pc # "rd_free" => err = "OK"
      /\ StoreOK /\ h \in Handles /\ Temp \in Handles /\ Temp \in Objects
      /\ Source(Temp) = Temp /\ Sink(Temp) = Temp
      /\ Original \in Text /\ Len(Original) \in Nat
      /\ obj[Temp].data \in Text /\ obj[Temp].pos \in Nat
      /\ Clean /\ err # "IOFAIL" => mem["iconv"].pos = 0
      /\ pc \in {"rs_first", "rs_rest"} => h = Std
      /\ pc \in {"rd_temp", "rd_seek", "rd_task", "rd_file", "rd_rewind", "rd_trunc",
                 "rd_free"} => h # Std
  <2>1. pc \in RecodePoints
    BY DEF RecodeStep, RecodeStart, RecodeNoLibrary, RecodeTemp, RecodeSeek, RecodeTask,
       RecodeRewindFile, RecodeRewindTemp, RecodeTruncate, RecodeFree, RecodeBuffer,
       RecodeRest, RecodeSystemError, FreeTemp, Try, RecodePoints
  <2> QED BY <2>1, AtRecode
<1>1. h # Std =>
        /\ Source(h) = h /\ Sink(h) = h /\ h \in Objects /\ h \in Files /\ h # Temp
        /\ In = obj[h] /\ Out = obj[h] /\ In.data \in Text /\ In.pos \in Nat
        /\ Unwritten
  BY <1>0, OwnPlace
<1>2. CASE RecodeStart \/ RecodeNoLibrary
  <2>0. pc = "recode" /\ Sampled /\ err = "OK"
    BY <1>0, <1>2 DEF RecodeStart, RecodeNoLibrary, FileInv, MainOK, Untried
  <2>1. ASSUME NEW e \in {"CANNOT", "LIBCOM"}, UNCHANGED fbvars, Jump("returned", e)
        PROVE  FileInv'
    <3>1. Sampled' /\ mem'["iconv"] = mem["iconv"]
      BY <2>0, <2>1, JumpFacts, FileKept DEF fbvars
    <3> QED BY <1>0, <2>0, <2>1, <3>1, FileJump DEF IconvLoop, Copying, Untried
  <2>2. CASE UNCHANGED fbvars /\ Jump("rs_first", err)
    <3>1. mem'["iconv"] = mem["iconv"]
      BY <2>2 DEF fbvars
    <3> QED BY <1>0, <2>0, <2>2, <3>1, FileJump DEF IconvLoop, Copying, Untried
  <2>3. CASE /\ h # Std /\ obj' = [obj EXCEPT ![h].pos = 0]
             /\ mem' = [mem EXCEPT !["main"] = EmptyBuffer]
             /\ UNCHANGED <<open, linked, status>> /\ Jump("rd_temp", err)
    <3>1. mem'["main"].pos = 0 /\ mem'["iconv"] = mem["iconv"]
      BY <1>0, <2>3, SetBuffer, SpecialBuffers DEF Buffers, BuffersKept
    <3>2. Original' = Original /\ h' = h
      BY <2>3, JumpFacts DEF Original
    <3>3. obj'[h].data = obj[h].data
      BY <1>0, <1>1, <2>3 DEF StoreOK, ObjectsOK, Stream
    <3>4. In' = obj'[h] /\ In.data = Original
      BY <1>1, <2>0, <2>3, <3>2 DEF In, Sampled
    <3>5. Emptied'
      BY <1>1, <2>3, <3>1, <3>2, <3>3, <3>4 DEF Emptied, MainSize, Unwritten
    <3> QED BY <1>0, <2>0, <2>3, <3>1, <3>5, FileJump DEF IconvLoop, Copying, Untried
  <2>4. CASE Jump("returned", "IOFAIL")
    BY <1>0, <2>4, FileFails DEF ReturnPoints
  <2> QED BY <1>2, <2>1, <2>2, <2>3, <2>4 DEF RecodeStart, RecodeNoLibrary
<1>3. CASE RecodeTemp
  <2>1. CASE pc = "rd_temp" /\ FileTemporary(TRUE) /\ Jump("rd_seek", err)
    <3>1. OthersKept(Temp) /\ mem' = mem
      BY <1>0, <2>1, TempStore DEF FileTemporary
    <3>2. Emptied /\ obj'[h] = obj[h] /\ h # Std
      BY <1>0, <1>1, <2>1, <3>1 DEF FileInv, RecodeOK, OthersKept
    <3>3. h' = h /\ orig' = orig
      BY <2>1, JumpFacts
    <3>4. Emptied'
      BY <1>1, <3>1, <3>2, <3>3 DEF Emptied, In, Original, MainSize, Unwritten
    <3> QED BY <1>0, <2>1, <3>1, <3>4, FileJump DEF IconvLoop, Copying, Untried
  <2>2. CASE Jump("rd_free", "IOFAIL")
    BY <1>0, <2>2, FileFails DEF ReturnPoints
  <2>3. CASE FileTemporaryExits /\ Stop
    BY <1>0, <2>3, FileStops DEF FileTemporaryExits, Stop
  <2> QED BY <1>3, <2>1, <2>2, <2>3 DEF RecodeTemp, Try
<1>4. ASSUME NEW l \in {"rd_task", "rd_rewind"}, FileSeek(h, 0), Jump(l, err),
             l = "rd_task" => pc = "rd_seek", l = "rd_rewind" => pc = "rd_file"
      PROVE  FileInv'
  <2>0. /\ err = "OK" /\ h # Std /\ Emptied
        /\ l = "rd_rewind" => obj[Temp].data = Images(Original)
    BY <1>0, <1>4 DEF FileInv, RecodeOK
  <2>1. 0 <= Len(obj[h].data)
    BY <1>0, <1>1, <2>0, StoreTypes
  <2>2. /\ OthersKept(h) /\ mem' = mem /\ obj'[h].pos = 0 /\ obj'[h].data = obj[h].data
    BY <1>0, <1>1, <1>4, <2>0, <2>1, SeekStep
  <2>3. h' = h /\ Original' = Original /\ obj'[Temp] = obj[Temp]
    BY <1>0, <1>1, <1>4, <2>0, <2>2, JumpFacts DEF Original, OthersKept
  <2>4. In' = obj'[h]
    BY <1>1, <2>0, <2>3 DEF In
  <2>5. Emptied'
    BY <1>1, <2>0, <2>2, <2>3, <2>4 DEF Emptied, MainSize, Unwritten
  <2> QED
    BY <1>0, <1>4, <2>0, <2>2, <2>3, <2>4, <2>5, FileJump DEF IconvLoop, Copying, Untried
<1>5. CASE RecodeSeek \/ RecodeRewindFile
  <2>1. CASE Jump("rd_free", "IOFAIL")
    BY <1>0, <2>1, FileFails DEF ReturnPoints
  <2> QED BY <1>4, <1>5, <2>1 DEF RecodeSeek, RecodeRewindFile, Try
<1>6. CASE RecodeTask
  <2> DEFINE s == SubSeq(obj[h].data, obj[h].pos + 1, Len(obj[h].data))
             out == Images(s)
  <2>0. /\ pc = "rd_task" /\ err = "OK" /\ h # Std /\ Emptied /\ In.pos = 0
        /\ mem' = mem
    BY <1>0, <1>6 DEF RecodeTask, FileInv, RecodeOK
  <2>1. CASE Jump("rd_free", "IOFAIL")
    BY <1>0, <2>1, FileFails DEF ReturnPoints
  <2>2. CASE /\ obj' = [obj EXCEPT ![h].pos = Len(obj[h].data),
                                   ![Temp] = [data |-> out, pos |-> Len(out)]]
             /\ Jump("rd_file", err)
    <3>1. s = Original
      <4>1. obj[h].data = Original /\ obj[h].pos = 0
        BY <1>1, <2>0 DEF Emptied
      <4>2. SubSeq(Original, 0 + 1, Len(Original)) = Original
        BY <1>0, TextFull
      <4> QED BY <4>1, <4>2
    <3> HIDE DEF s
    <3>2. obj'[h].data = obj[h].data /\ obj'[Temp].data = Images(Original)
      BY <1>0, <1>1, <2>0, <2>2, <3>1 DEF StoreOK, ObjectsOK, Stream
    <3>3. h' = h /\ Original' = Original
      BY <2>2, JumpFacts DEF Original
    <3>4. In' = obj'[h]
      BY <1>1, <2>0, <3>3 DEF In
    <3>5. Emptied'
      BY <1>1, <2>0, <3>2, <3>3, <3>4 DEF Emptied, MainSize, Unwritten
    <3>6. (obj[Temp].data = Images(Original))'
      BY <3>2, <3>3
    <3> QED
      BY <1>0, <2>0, <2>2, <3>5, <3>6, FileJump DEF IconvLoop, Copying, Untried
  <2> QED BY <1>6, <2>1, <2>2 DEF RecodeTask
<1>7. CASE RecodeRewindTemp
  <2>1. CASE pc = "rd_rewind" /\ FileSeek(Temp, 0) /\ Jump("rd_trunc", err)
    <3>0. /\ err = "OK" /\ h # Std /\ Emptied /\ obj[Temp].data = Images(Original)
      BY <1>0, <2>1 DEF FileInv, RecodeOK
    <3>1. 0 <= Len(obj[Temp].data)
      BY <1>0, StoreTypes
    <3>2. /\ OthersKept(Temp) /\ mem' = mem /\ obj'[Temp].pos = 0
          /\ obj'[Temp].data = obj[Temp].data
      BY <1>0, <2>1, <3>1, SeekStep
    <3>3. h' = h /\ orig' = orig /\ obj'[h] = obj[h]
      BY <1>1, <2>1, <3>0, <3>2, JumpFacts DEF OthersKept
    <3>4. Emptied' /\ Original' = Original
      BY <1>1, <3>0, <3>2, <3>3 DEF Emptied, In, Original, MainSize, Unwritten
    <3>5. (obj[Temp].data = Images(Original))'
      BY <3>0, <3>2, <3>4
    <3> QED
      BY <1>0, <2>1, <3>0, <3>2, <3>4, <3>5, FileJump DEF IconvLoop, Copying, Untried
  <2>2. CASE Jump("rd_free", "IOFAIL")
    BY <1>0, <2>2, FileFails DEF ReturnPoints
  <2> QED BY <1>7, <2>1, <2>2 DEF RecodeRewindTemp, Try
<1>8. CASE RecodeTruncate
  <2>1. CASE /\ pc = "rd_trunc" /\ FileTruncate(h, 0)
             /\ Call(Temp, h, FALSE, "main", "rd_free")
    <3>0. /\ err = "OK" /\ h # Std /\ Emptied /\ obj[Temp].data = Images(Original)
          /\ obj[Temp].pos = 0 /\ obj[h].pos = 0
      BY <1>0, <2>1 DEF FileInv, RecodeOK, BufferInv, PlacesOK, Rewound
    <3>1. obj' = [obj EXCEPT ![h].data = Resized(@, h, 0)] /\ mem' = mem
      BY <2>1 DEF FileTruncate
    <3>2. /\ OthersKept(h) /\ obj'[h].pos = 0 /\ Len(obj'[h].data) = 0
      BY <1>0, <1>1, <3>0, <3>1, TruncateStore
    <3>3. /\ h' = h /\ Original' = Original /\ call'.from = Temp /\ call'.to = h
          /\ call'.xlat = FALSE /\ call'.buf = "main" /\ call'.ret = "rd_free"
      BY <2>1, CallFacts DEF Original
    <3>4. CopySource' = obj[Temp] /\ CopyTarget' = obj'[h] /\ CopyBuffer'.pos = 0
      BY <1>0, <1>1, <3>0, <3>1, <3>2, <3>3
         DEF CopySource, CopyTarget, CopyBuffer, OthersKept, Emptied, MainSize
    <3>5. 0 <= Len(obj[Temp].data)
      BY <1>0, StoreTypes
    <3>6. CopyGoing'
      BY <3>0, <3>2, <3>3, <3>4, <3>5 DEF CopyGoing
    <3> QED BY <1>0, <2>1, <3>0, <3>1, <3>6, FileCall DEF IconvLoop
  <2>2. CASE Jump("rd_free", "IOFAIL")
    BY <1>0, <2>2, FileFails DEF ReturnPoints
  <2> QED BY <1>8, <2>1, <2>2 DEF RecodeTruncate
<1>9. CASE RecodeFree
  <2>1. /\ pc = "rd_free" /\ obj' = [obj EXCEPT ![Temp] = EmptyBuffer] /\ mem' = mem
        /\ Jump("returned", err)
    BY <1>9 DEF RecodeFree, FreeTemp
  <2>2. OthersKept(Temp) /\ h # Std
    BY <1>0, <2>1, TempStore
  <2>3. h' = h /\ Original' = Original /\ Out' = Out /\ By' = By
    BY <1>0, <1>1, <2>1, <2>2, JumpFacts DEF Original, Out, By, OthersKept
  <2>4. /\ err \in {"OK", "IOFAIL"}
        /\ err = "OK" => Out.data = Images(Original)
    BY <2>1 DEF FileInv, RecodeOK, PathInv, ErrorsOK
  <2>5. err = "OK" => Out'.data = Expected(By', Original')
    BY <1>0, <2>3, <2>4 DEF Expected
  <2> QED BY <1>0, <2>1, <2>4, <2>5, FileJump DEF IconvLoop, Copying, Untried
<1>10. CASE RecodeBuffer \/ RecodeRest
  <2>1. /\ UNCHANGED <<mem, orig, setup, cur, req, todo, fsize, call, used, eof, done>>
        /\ pc \in {"rs_first", "rs_rest"} /\ h = Std /\ err = "OK"
        /\ \/ pc' \in {"rs_rest", "stopped"} /\ err' = "OK"
           \/ pc' \in {"returned", "stopped"} /\ err' \in {"OK", "IOFAIL"}
    BY <1>0, <1>10 DEF RecodeBuffer, RecodeRest, RecodeToStdout, Goto
  <2>2. h' = h /\ Original' = Original /\ By' = By /\ Stage' = pc' /\ Clean' = Clean
    BY <2>1 DEF h, Original, By, Stage, Copying, Clean
  <2>3. fsize = Len(Original)
    BY <1>0, <2>1 DEF FileInv, MainOK
  <2>4. MainOK'
    BY <1>0, <2>1, <2>2, <2>3 DEF MainOK, Untried
  <2>5. InPlaceOK' /\ CopyOK' /\ IconvOK' /\ RecodeOK' /\ ExternOK'
    BY <2>1 DEF InPlaceOK, CopyOK, IconvOK, RecodeOK, ExternOK, Copying, IconvLoop
  <2>6. IconvBufferOK'
    BY <1>0, <2>1, <2>2 DEF IconvBufferOK, IconvLoop
  <2> QED BY <2>4, <2>5, <2>6 DEF FileInv
<1>11. CASE RecodeSystemError
  BY <1>0, <1>11, FileFails DEF RecodeSystemError, ReturnPoints
<1> QED
  BY <1>2, <1>3, <1>5, <1>6, <1>7, <1>8, <1>9, <1>10, <1>11 DEF RecodeStep

LEMMA FileExtern ==
  ASSUME StreamInv, PathInv, BufferInv, FileInv, ExternStep
  PROVE  FileInv'
<1>0. /\ pc \in ExternPoints
      /\ Stage = pc /\ pc \notin {"main", "finish", "stopped"}
      /\ req.kind = "known" /\ todo # <<>> /\ Head(todo) = "extern" /\ By = "extern"
      /\ pc \notin {"ex_saved", "ex_free"} => err = "OK"
      /\ pc = "ex_saved" => err \in {"OK", "IOFAIL"}
      /\ pc = "ex_free" => err \in {"OK", "IOFAIL", "CANNOT", "EXEC"}
      /\ Clean /\ err # "IOFAIL" => mem["iconv"].pos = 0
      /\ pc \in {"ex_temp", "ex_saved", "ex_free"} => h = Std
      /\ Listed("extern")
  <2>1. pc \in ExternPoints
    BY DEF ExternStep, ExternStart, ExternTemp, ExternSaved, ExternRun, ExternDies,
       ExternFree, ExternPoints
  <2>2. Stage = pc /\ pc \notin {"main", "finish", "stopped"} /\ pc \notin Copying
    BY <2>1 DEF ExternPoints, Stage, Copying
  <2>3. /\ req.kind = "known" /\ todo # <<>> /\ Head(todo) = "extern"
        /\ pc \in {"ex_temp", "ex_saved", "ex_free"} => h = Std
        /\ pc \notin {"ex_saved", "ex_free"} => err = "OK"
        /\ pc = "ex_saved" => err \in {"OK", "IOFAIL"}
        /\ pc = "ex_free" => err \in {"OK", "IOFAIL", "CANNOT", "EXEC"}
    BY <2>1, <2>2 DEF ExternPoints, PathInv, HeadsOK, ErrorsOK, ConverterPoints,
       ReturnPoints, StreamInv, BeforeConverters, BetweenFiles
  <2>4. Clean /\ err # "IOFAIL" => mem["iconv"].pos = 0
    BY <2>1, <2>2 DEF FileInv, IconvBufferOK, IconvLoop, ExternPoints
  <2>5. By = "extern"
    BY <2>3 DEF By
  <2>6. Listed("extern")
    <3>1. todo \in Seq(Converters)
      BY DEF StreamInv, TypeOK
    <3>2. 1 \in DOMAIN todo /\ todo[1] = "extern"
      BY <2>3, <3>1
    <3>3. Listed(todo[1])
      BY <3>2 DEF PathInv, TodoOK
    <3> QED BY <3>2, <3>3
  <2> QED BY <2>1, <2>2, <2>3, <2>4, <2>5, <2>6
<1>1. /\ StoreOK /\ h \in Handles /\ h \in Files \cup {Std} /\ Temp \in Handles
      /\ Temp \in Objects /\ Source(Temp) = Temp /\ Sink(Temp) = Temp
      /\ Source(h) \in Objects /\ Sink(h) \in Objects
      /\ Source(h) # Temp /\ Sink(h) # Temp
      /\ h = Std => Source(h) # Sink(h)
      /\ h # Std => Source(h) = h /\ Sink(h) = h /\ h \in Objects
  <2>1. h \in Handles /\ h \in Files \cup {Std} /\ Temp \in Handles /\ Temp \in Objects
        /\ StoreOK
    BY <1>0, CurrentHandle DEF BufferInv, Handles, Objects
  <2> QED BY <2>1, Places, FilebufAssumption DEF Source, Sink, Std, Temp, Objects
<1>2. Original \in Text /\ Images(Original) \in Text
  <2>1. Original \in Text
    BY <1>1 DEF Original, BufferInv, PlacesOK
  <2> QED BY <2>1, ImagesType
<1>3. CASE ExternStart
  <2>0. pc = "extern" /\ Sampled /\ err = "OK" /\ UNCHANGED fbvars
    BY <1>0, <1>3 DEF ExternStart, FileInv, MainOK, Untried
  <2>1. ASSUME NEW l \in {"returned", "ex_temp", "ex_run"}, NEW e \in {"OK", "CANNOT"},
               Jump(l, e), l = "returned" => e = "CANNOT", l = "ex_run" => h # Std
        PROVE  FileInv'
    <3>1. Sampled' /\ mem'["iconv"] = mem["iconv"] /\ h' = h
      BY <2>0, <2>1, JumpFacts, FileKept DEF fbvars
    <3> QED BY <1>0, <2>0, <2>1, <3>1, FileJump DEF IconvLoop, Copying, Untried
  <2> QED BY <1>3, <2>0, <2>1 DEF ExternStart
<1>4. CASE ExternTemp
  <2>0. pc = "ex_temp" /\ Sampled /\ err = "OK" /\ h = Std
    BY <1>0, <1>4 DEF ExternTemp, FileInv, MainOK, Untried
  <2>1. CASE FileTemporary(FALSE) /\ Call(h, Temp, FALSE, "main", "ex_saved")
    <3>1. OthersKept(Temp) /\ obj'[Temp] = EmptyBuffer /\ mem' = mem
      BY <1>1, <2>1, TempStore DEF FileTemporary
    <3>2. /\ h' = h /\ orig' = orig /\ call'.from = h /\ call'.to = Temp
          /\ call'.xlat = FALSE /\ call'.buf = "main" /\ call'.ret = "ex_saved"
      BY <2>1, CallFacts
    <3>3. obj'[Source(h)] = obj[Source(h)] /\ obj'[Sink(h)] = obj[Sink(h)]
      BY <1>1, <3>1 DEF OthersKept
    <3>4. /\ CopySource' = In /\ CopyTarget' = EmptyBuffer /\ CopyBuffer' = mem["main"]
          /\ Original' = Original /\ Unwritten'
      BY <1>1, <2>0, <3>1, <3>2, <3>3
         DEF CopySource, CopyTarget, CopyBuffer, In, Original, Sampled, Unwritten, Out
    <3>5. /\ EmptyBuffer.pos = 0 /\ Len(EmptyBuffer.data) = 0
          /\ In.pos \in Nat /\ mem["main"].pos \in Int
      BY <1>1, SpecialBuffers, StoreTypes DEF In, Buffers
    <3>6. CopyGoing'
      BY <2>0, <3>2, <3>4, <3>5 DEF CopyGoing, Sampled, MainSize
    <3> QED BY <1>0, <2>0, <2>1, <3>1, <3>6, FileCall DEF IconvLoop
  <2>2. CASE Jump("returned", "IOFAIL")
    BY <1>0, <2>2, FileFails DEF ReturnPoints
  <2>3. CASE FileTemporaryExits /\ Stop
    BY <1>0, <2>3, FileStops DEF FileTemporaryExits, Stop
  <2> QED BY <1>4, <2>1, <2>2, <2>3 DEF ExternTemp
<1>5. CASE ExternSaved
  <2>0. pc = "ex_saved" /\ h = Std /\ UNCHANGED fbvars
    BY <1>0, <1>5 DEF ExternSaved
  <2>1. CASE err = "OK" /\ Jump("ex_run", err)
    <3>1. Saved /\ Unwritten /\ Drained
      BY <2>0, <2>1 DEF FileInv, ExternOK
    <3>2. h' = h /\ orig' = orig /\ obj' = obj /\ mem' = mem
      BY <2>0, <2>1, JumpFacts DEF fbvars
    <3>3. (Saved /\ Unwritten /\ Drained)'
      BY <3>1, <3>2 DEF Saved, Unwritten, Drained, In, Out, Original, MainSize
    <3> QED BY <1>0, <2>0, <2>1, <3>2, <3>3, FileJump DEF IconvLoop, Copying, Untried
  <2>2. CASE err = "IOFAIL" /\ Jump("ex_free", err)
    BY <1>0, <2>2, FileFails DEF ReturnPoints
  <2> QED BY <1>0, <1>5, <2>0, <2>1, <2>2 DEF ExternSaved
<1>6. CASE ExternRun
  <2> DEFINE in == IF h = Std THEN obj[Temp].data ELSE obj[h].data
  <2>0. /\ pc = "ex_run" /\ err = "OK" /\ mem' = mem
        /\ IF h = Std THEN Saved /\ Unwritten /\ Drained ELSE Sampled
    BY <1>0, <1>6 DEF ExternRun, FileInv, ExternOK
  <2>1. in = Original
    BY <1>1, <2>0 DEF Saved, Sampled, In
  <2>2. Unwritten
    BY <2>0 DEF Sampled
  <2>3. ASSUME NEW bytes \in Text, NEW l, NEW e, Jump(l, e),
               obj' = [obj EXCEPT ![Sink(h)] =
                         IF h = Std THEN Overwritten(@, bytes)
                                    ELSE [data |-> bytes, pos |-> @.pos]]
        PROVE  /\ h' = h /\ orig' = orig /\ setup' = setup /\ todo' = todo /\ By' = By
               /\ Out'.data = bytes /\ (h = Std => Drained')
    <3>1. h' = h /\ orig' = orig /\ setup' = setup /\ todo' = todo /\ By' = By
      BY <2>3, JumpFacts DEF By
    <3>2. CASE h = Std
      <4> DEFINE o == obj[Sink(h)]
      <4>1. obj'[Sink(h)] = Overwritten(o, bytes) /\ obj'[Source(h)] = obj[Source(h)]
        BY <1>1, <2>3, <3>2 DEF StoreOK, ObjectsOK
      <4>2. o \in Stream /\ o.pos = 0 /\ o.data = <<>>
        BY <1>1, <2>2, <3>2, StoreTypes DEF Unwritten, Out
      <4> HIDE DEF o
      <4>3. Len(o.data) = 0
        BY <4>2, TextEmpty
      <4>4. Overwritten(o, bytes).data = <<>> \o bytes
        <5>1. o.pos <= Len(o.data) /\ o.pos = Len(o.data)
          BY <4>2, <4>3
        <5>2. Overwritten(o, bytes).data = o.data \o bytes
          BY <4>2, <5>1, OverwrittenFacts
        <5> QED BY <4>2, <5>2
      <4>5. Out'.data = bytes
        BY <2>3, <3>1, <4>1, <4>4, TextEmpty DEF Out
      <4>6. Drained'
        BY <2>0, <3>1, <3>2, <4>1 DEF Drained, In, MainSize
      <4> QED BY <3>1, <4>5, <4>6
    <3>3. CASE h # Std
      <4>1. obj'[h] = [data |-> bytes, pos |-> obj[h].pos]
        BY <1>1, <2>3, <3>3 DEF StoreOK, ObjectsOK
      <4> QED BY <1>1, <3>1, <3>3, <4>1 DEF Out
    <3> QED BY <3>2, <3>3
  <2>4. CASE /\ Jump(IF h = Std THEN "ex_free" ELSE "returned", "OK")
             /\ obj' = [obj EXCEPT ![Sink(h)] =
                          IF h = Std THEN Overwritten(@, Images(in))
                                     ELSE [data |-> Images(in), pos |-> @.pos]]
    <3>1. Out'.data = Images(Original) /\ By' = By /\ Original' = Original
      <4> HIDE DEF in
      <4> QED BY <1>2, <2>1, <2>3, <2>4 DEF Original
    <3>2. (Out.data = Expected(By, Original))' /\ (Out.data = Images(Original))'
      BY <1>0, <3>1 DEF Expected
    <3> QED BY <1>0, <2>0, <2>4, <3>2, FileJump DEF IconvLoop, Copying, Untried
  <2>5. CASE /\ Jump(IF h = Std THEN "ex_free" ELSE "returned", "CANNOT")
             /\ \E part \in Prefixes(Images(in)) :
                  obj' = [obj EXCEPT ![Sink(h)] =
                            IF h = Std THEN Overwritten(@, part)
                                       ELSE [data |-> part, pos |-> @.pos]]
    <3> HIDE DEF in
    <3>1. PICK part \in Prefixes(Images(in)) :
                  obj' = [obj EXCEPT ![Sink(h)] =
                            IF h = Std THEN Overwritten(@, part)
                                       ELSE [data |-> part, pos |-> @.pos]]
      BY <2>5
    <3>2. part \in Text
      BY <1>2, <2>1, PrefixType
    <3>3. h' = h /\ setup' = setup /\ todo' = todo /\ (h = Std => Drained')
      BY <2>3, <2>5, <3>1, <3>2
    <3>4. (Head(todo) = "extern" /\ Spoiled)'
      BY <1>0, <3>3 DEF Spoiled, Listed
    <3> QED BY <1>0, <2>0, <2>5, <3>3, <3>4, FileJump DEF IconvLoop, Copying, Untried
  <2>6. CASE /\ obj' = obj /\ \E e \in {"CANNOT", "EXEC"} :
                                Jump(IF h = Std THEN "ex_free" ELSE "returned", e)
    <3>1. PICK e \in {"CANNOT", "EXEC"} : Jump(IF h = Std THEN "ex_free" ELSE "returned", e)
      BY <2>6
    <3>2. h' = h /\ orig' = orig
      BY <3>1, JumpFacts
    <3>3. IF h = Std THEN Drained' ELSE Sampled'
      BY <2>0, <2>6, <3>2
         DEF Drained, Sampled, In, Out, Original, MainSize, Unwritten
    <3> QED BY <1>0, <2>0, <3>1, <3>3, FileJump DEF IconvLoop, Copying, Untried
  <2> QED BY <1>6, <2>4, <2>5, <2>6 DEF ExternRun
<1>7. CASE ExternDies
  <2>1. Jump("stopped", err) /\ obj' = obj
    BY <1>7 DEF ExternDies, Stop
  <2> QED BY <1>0, <2>1, FileStops
<1>8. CASE ExternFree
  <2>1. /\ pc = "ex_free" /\ obj' = [obj EXCEPT ![Temp] = EmptyBuffer] /\ mem' = mem
        /\ Jump("returned", err) /\ h = Std
    BY <1>0, <1>8 DEF ExternFree
  <2>2. OthersKept(Temp)
    BY <1>1, <2>1, TempStore
  <2>3. h' = h /\ Original' = Original /\ Out' = Out /\ In' = In /\ By' = By
        /\ setup' = setup /\ todo' = todo
    BY <1>1, <2>1, <2>2, JumpFacts DEF Original, Out, In, By, OthersKept
  <2>4. /\ err = "OK" => Out.data = Images(Original)
        /\ err = "CANNOT" => Drained
    BY <2>1 DEF FileInv, ExternOK
  <2>5. err = "OK" => (Out.data = Expected(By, Original))'
    BY <1>0, <2>3, <2>4 DEF Expected
  <2>6. err = "CANNOT" => (Head(todo) = "extern" /\ Spoiled)'
    BY <1>0, <2>1, <2>3, <2>4 DEF Spoiled, Listed, Drained, MainSize
  <2> QED BY <1>0, <2>1, <2>5, <2>6, FileJump DEF IconvLoop, Copying, Untried
<1> QED BY <1>3, <1>4, <1>5, <1>6, <1>7, <1>8 DEF ExternStep
-----------------------------------------------------------------------------
LEMMA InitContent == Init => ContentInv
<1> SUFFICES ASSUME Init PROVE ContentInv
  OBVIOUS
<1>1. /\ pc = "main" /\ err = "OK" /\ cur = 1 /\ done = <<>>
      /\ mem = [b \in Buffers |-> EmptyBuffer]
      /\ obj = [o \in Objects |->
                 [data |-> IF o \in Files THEN orig[o]
                           ELSE IF o = "stdin" THEN orig[Std] ELSE <<>>,
                  pos |-> 0]]
  BY DEF Init
<1>2. mem["iconv"].pos = 0
  BY <1>1 DEF Buffers, EmptyBuffer
<1>3. FileInv
  BY <1>1, <1>2 DEF FileInv, MainOK, InPlaceOK, CopyOK, IconvOK, IconvBufferOK, RecodeOK,
     ExternOK, Untried, Copying, IconvLoop, Stage
<1>4. setup.args \in Seq(Files \cup {Std})
  BY ConvertAssumption DEF Init, Setups
<1>5. AheadOK
  <2> SUFFICES ASSUME NEW i \in DOMAIN setup.args PROVE Untaken(setup.args[i])
    BY DEF AheadOK
  <2>1. setup.args[i] \in Files \cup {Std}
    BY <1>4
  <2>2. /\ Source(setup.args[i]) \in Objects
        /\ obj[Source(setup.args[i])].data = orig[setup.args[i]]
    BY <1>1, <2>1, FilebufAssumption DEF Objects, Source, Std
  <2>3. obj["stdin"].pos = 0 /\ obj["stdout"].data = <<>> /\ obj["stdout"].pos = 0
    BY <1>1, FilebufAssumption DEF Objects
  <2> QED BY <2>2, <2>3 DEF Untaken
<1>6. DoneOK
  BY <1>1 DEF DoneOK
<1> QED BY <1>3, <1>5, <1>6 DEF ContentInv

(* Nothing changed. *)
LEMMA FileStutters == ASSUME FileInv, UNCHANGED vars PROVE FileInv'
<1> USE DEF vars, fbvars, ctlvars
<1>1. /\ UNCHANGED <<h, Original, In, Out, MainSize, By, Stage>>
      /\ pc' = pc /\ err' = err /\ obj' = obj /\ mem' = mem /\ todo' = todo
      /\ fsize' = fsize /\ eof' = eof /\ used' = used /\ call' = call
      /\ orig' = orig /\ setup' = setup /\ done' = done
  BY DEF h, Original, In, Out, MainSize, By, Stage
<1>2. /\ Sampled => Sampled'
      /\ Emptied => Emptied'
      /\ Spoiled => Spoiled'
      /\ Drained => Drained'
      /\ Unwritten => Unwritten'
      /\ Saved => Saved'
      /\ Clean' => Clean
      /\ Listed("extern") => Listed("extern")'
      /\ CopyWorked(h)' => CopyWorked(h)
      /\ CopyGoing => CopyGoing'
      /\ CopyBuffer' = CopyBuffer
  <2>1. UNCHANGED <<CopySource, CopyTarget, CopyBuffer, CopyGoal>>
    BY DEF CopySource, CopyTarget, CopyBuffer, CopyGoal
  <2> QED
    BY <1>1, <2>1
       DEF Sampled, Emptied, Spoiled, Drained, Unwritten, Saved, Clean, Listed, CopyWorked,
           CopyGoing, faults
<1>3. MainOK'
  BY <1>1, <1>2 DEF FileInv, MainOK, Untried
<1>4. InPlaceOK'
  BY <1>1, <1>2 DEF FileInv, InPlaceOK, HalfWay, Holds
<1>5. CopyOK'
  BY <1>1, <1>2 DEF FileInv, CopyOK
<1>6. IconvOK'
  <2>1. /\ Flow(ToCome(0)) => Flow(ToCome(0))'
        /\ Flow(ToCome(used)) => Flow(ToCome(used))'
    BY <1>1 DEF Flow, ToCome
  <2>2. MainSize' = MainSize
    BY <1>1
  <2> QED BY <1>1, <1>2, <2>1, <2>2 DEF FileInv, IconvOK
<1>7. IconvBufferOK' /\ RecodeOK' /\ ExternOK'
  BY <1>1, <1>2 DEF FileInv, IconvBufferOK, RecodeOK, ExternOK
<1> QED BY <1>3, <1>4, <1>5, <1>6, <1>7 DEF FileInv

LEMMA StepContent ==
  StreamInv /\ BufferInv /\ PathInv /\ ContentInv /\ [Next]_vars => ContentInv'
<1> SUFFICES ASSUME StreamInv, BufferInv, PathInv, ContentInv, [Next]_vars, Orderly'
             PROVE  (FileInv /\ AheadOK /\ DoneOK)'
  BY DEF ContentInv
<1>1. setup' = setup
  BY SetupFixed
<1>2. Orderly
  BY <1>1 DEF Orderly, Distinct, ExternLast, UsesStd, faults
<1>3. FileInv /\ AheadOK /\ DoneOK
  BY <1>2 DEF ContentInv
<1>4. AheadOK' /\ DoneOK'
  BY <1>2, <1>3, StepAhead, StepDone DEF Orderly, FileInv
<1>5. FileInv'
  BY <1>2, <1>3, FileMain, FileChoose, FileCopy, FileBuiltin, FileIconv, FileRecode,
     FileExtern, FileStutters DEF Next
<1> QED BY <1>4, <1>5

(* What every file, the temporary file, standard output and the two buffers *)
(* hold at every point of main(), process_file(), convert() and the four    *)
(* converters, for every command line that names no file twice and puts     *)
(* nothing behind the external converter: the copy loop of                  *)
(* copy_and_convert() (src/convert.c:299), the in-place loop of             *)
(* convert_builtin() (src/convert.c:233) and the block loop of              *)
(* convert_iconv() (src/convert_iconv.c:114) neither lose nor repeat a byte. *)
THEOREM ContentInvariant == Spec => [](StreamInv /\ BufferInv /\ PathInv /\ ContentInv)
<1>1. Init => StreamInv /\ BufferInv /\ PathInv /\ ContentInv
  BY InitStream, InitBuffer, InitPath, InitContent
<1>2. StreamInv /\ BufferInv /\ PathInv /\ ContentInv /\ [Next]_vars
        => (StreamInv /\ BufferInv /\ PathInv /\ ContentInv)'
  BY StepStream, StepBuffer, StepPath, StepContent
<1> QED BY <1>1, <1>2, PTL DEF Spec
=============================================================================
