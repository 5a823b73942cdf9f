------------------------------ MODULE Convert ------------------------------
(***************************************************************************)
(* The conversion pipeline of enca -x: main() and process_file()           *)
(* (src/enca.c), convert(), convert_builtin() and copy_and_convert()       *)
(* (src/convert.c), convert_iconv() (src/convert_iconv.c),                 *)
(* convert_recode() (src/convert_recode.c) and convert_external()          *)
(* (src/convert_extern.c), over the i/o layer of module Filebuf.           *)
(*                                                                         *)
(* One step is one call into the i/o layer, one iconv()ed character, one   *)
(* librecode task or one run of the child.  pc is the point of the         *)
(* program; err is the value being returned; copy_and_convert() is a       *)
(* subroutine whose arguments and return point are in call.  What the      *)
(* analyser answers and which converters accept the request is chosen in   *)
(* Analyse.                                                                *)
(***************************************************************************)
EXTENDS Filebuf

CONSTANTS
  ArgLists,       \* file lists of the command line; <<Std>> when it is empty
  ConverterLists, \* values of the converters list (-C)
  Contents        \* kinds of the bytes of a file: a set of sequences

VARIABLES
  orig,   \* handle -> its original bytes, fixed
  pc, err,
  cur,    \* index in args of the file being processed
  req,    \* answer of the analyser for it
  todo,   \* converters not tried yet (conv in convert())
  fsize,  \* file->size, taken when the file was opened
  call,   \* [from, to, xlat, buf, ret] of copy_and_convert()
  used,   \* bytes of the iconv buffer consumed (p_from)
  eof,    \* hit_eof
  ok,     \* success of the last librecode task
  done    \* per processed file: [code, by], its exit code and converter

ctlvars == <<setup, orig, pc, err, cur, req, todo, fsize, call, used, eof,
             ok, done>>
vars == <<fbvars, ctlvars>>

Converters == {"builtin", "iconv", "recode", "extern"}
Kinds == {"a", "w", "l", "t", "x"}

ASSUME ConvertAssumption ==
  /\ ArgLists \subseteq Seq(Files \cup {Std})
  /\ ConverterLists \subseteq Seq(Converters)
  /\ Contents \subseteq Seq(Kinds)

h == setup.args[cur]
-----------------------------------------------------------------------------
(***************************************************************************)
(* Data.  For the built-in tables any byte maps to one byte.  For the      *)
(* multibyte converters "a" is a character with a one byte image, "w" one  *)
(* with two, "l" "t" a two byte character with one, "x" no character.      *)
(***************************************************************************)
Xlat(s) == [i \in DOMAIN s |-> [s[i] EXCEPT ![1] = IF @ = "in" THEN "out"
                                                               ELSE "junk"]]

Image(c) ==
  LET out == [c EXCEPT ![1] = IF @ = "in" THEN "out" ELSE "junk"]
  IN CASE c[2] = "w" -> <<out, [out EXCEPT ![2] = "w2"]>>
       [] c[2] = "t" -> <<>>
       [] OTHER      -> <<out>>

\* The length of the character at position i: 0 none, -1 cut off by the end.
CharAt(s, i) ==
  CASE s[i][2] \in {"a", "w"}                 -> 1
    [] s[i][2] = "l" /\ i = Len(s)            -> -1
    [] s[i][2] = "l" /\ i < Len(s) /\ s[i + 1][2] = "t" -> 2
    [] OTHER                                  -> 0

Valid(s) ==
  \A i \in DOMAIN s :
    CASE s[i][2] = "l" -> CharAt(s, i) = 2
      [] s[i][2] = "t" -> i > 1 /\ s[i - 1][2] = "l"
      [] OTHER         -> CharAt(s, i) = 1

Images(s) ==
  LET f[n \in 0 .. Len(s)] == IF n = 0 THEN <<>> ELSE f[n - 1] \o Image(s[n])
  IN f[Len(s)]

Prefixes(s) == {SubSeq(s, 1, k) : k \in 0 .. Len(s)}
-----------------------------------------------------------------------------
(* Control. *)

\* A step in which the process ended leads nowhere else.
Goto(l) == pc' = IF status' = "running" THEN l ELSE "stopped"
\* The part of the control state that most steps leave alone.
ctlrest == <<setup, orig, cur, req, todo, fsize, call, used, eof, ok, done>>

Jump(l, e) == Goto(l) /\ err' = e /\ UNCHANGED ctlrest
Stop == Jump("stopped", err)

\* At l, do an i/o call that either succeeds, continuing at next, or fails
\* with ERR_IOFAIL, continuing at bad.
Try(l, succeeds, next, fails, bad) ==
  /\ pc = l
  /\ \/ succeeds /\ Jump(next, err)
     \/ fails /\ Jump(bad, "IOFAIL")

Call(from, to, xlat, buf, ret) ==
  /\ call' = [from |-> from, to |-> to, xlat |-> xlat, buf |-> buf,
              ret |-> ret]
  /\ Goto("copy_write")
  /\ UNCHANGED <<setup, orig, err, cur, req, todo, fsize, used, eof, ok, done>>

\* What the analysis of a sample may answer: unknown, the requested encoding
\* itself, or another one, with what each converter can do about it.
Answers ==
  [kind : {"unknown", "same"}] \cup
  [kind : {"known"}, builtin : {"cannot", "identity", "xlat"},
   iconv : BOOLEAN, recode : BOOLEAN]

\* File list and converter list, whether an external converter can be run, and
\* the faults.
Setups == [args : ArgLists, convs : ConverterLists, extern : BOOLEAN,
           faults : FaultSets]

Init ==
  /\ setup \in Setups
  /\ \E kinds \in [Files \cup {Std} -> Contents] :
       orig = [f \in Files \cup {Std} |->
                 IF \E i \in DOMAIN setup.args : setup.args[i] = f
                 THEN [i \in DOMAIN kinds[f] |-> <<"in", kinds[f][i], f, i>>]
                 ELSE <<>>]
  /\ obj = [o \in Objects |->
              [data |-> IF o \in Files THEN orig[o]
                        ELSE IF o = "stdin" THEN orig[Std] ELSE <<>>,
               pos |-> 0]]
  /\ mem = [b \in Buffers |-> EmptyBuffer]
  /\ open = {} /\ linked = FALSE /\ status = "running"
  /\ pc = "main" /\ err = "OK" /\ cur = 1
  /\ req = [kind |-> "unknown"]
  /\ todo = <<>> /\ fsize = 0 /\ used = 0 /\ eof = FALSE /\ ok = TRUE
  /\ call = [from |-> Std, to |-> Std, xlat |-> FALSE, buf |-> "main",
             ret |-> "finish"]
  /\ done = <<>>
-----------------------------------------------------------------------------
(* main() and process_file(). *)

\* Deviation: the codes are or-ed and 1 wins over 2.
ExitStatusByFailure(codes) ==
  IF "failure" \in codes THEN "failure"
  ELSE IF "trouble" \in codes THEN "trouble" ELSE "success"

\* err |= process_file(...): the bits of the exit codes 0, 1 and 2, with
\* EXIT_TROUBLE winning.
ExitStatus(codes) ==
  IF "trouble" \in codes THEN "trouble"
  ELSE IF "failure" \in codes THEN "failure" ELSE "success"

Report(code, by) ==
  /\ IF status' = "running"
     THEN /\ done' = Append(done, [code |-> code, by |-> by])
          /\ cur' = cur + 1
     ELSE UNCHANGED <<done, cur>>
  /\ Goto("main")
  /\ err' = "OK"
  /\ UNCHANGED <<setup, orig, req, todo, fsize, call, used, eof, ok>>

OpenFile ==
  /\ pc = "main" /\ cur <= Len(setup.args)
  /\ \/ /\ FileOpen(h)
        /\ fsize' = Len(obj[Source(h)].data)
        /\ Goto("sample")
        /\ UNCHANGED <<setup, orig, err, cur, req, todo, call, used, eof, ok,
                       done>>
     \/ FileOpenFails(h) /\ Report("trouble", "none")

ReadSample == Try("sample", FileRead(h, "main"), "analyse",
                  FileReadFails(h, "main"), "finish")

\* enca_analyse_const() and the start of convert(): an empty sample is never
\* recognised, any other may or may not be.
Analyse ==
  /\ pc = "analyse" /\ UNCHANGED fbvars
  /\ req' \in (IF mem["main"].pos = 0 THEN [kind : {"empty"}] ELSE Answers)
  /\ todo' = setup.convs
  /\ IF req'.kind = "known"
     THEN Goto("try") /\ UNCHANGED call
     ELSE IF h # Std
     THEN Goto("finish") /\ UNCHANGED call
     ELSE /\ Goto("copy_write")
          /\ call' = [from |-> h, to |-> h, xlat |-> FALSE, buf |-> "main",
                      ret |-> "finish"]
  /\ UNCHANGED <<setup, orig, err, cur, fsize, used, eof, ok, done>>

\* The end of process_file(): the file is freed and the code computed.
FinishFile ==
  /\ pc = "finish"
  /\ FileClose(h) /\ UNCHANGED <<obj, mem, linked>>
  /\ LET unknown == req.kind = "unknown"
     IN Report(IF (err = "OK" /\ unknown) \/ err = "CANNOT" THEN "failure"
               ELSE IF err = "OK" THEN "success" ELSE "trouble",
               IF \/ req.kind # "known"
                  \/ todo = <<>>
                  \/ Head(todo) = "builtin" /\ req.builtin = "identity"
               THEN "none" ELSE Head(todo))

Exit ==
  /\ pc = "main" /\ cur > Len(setup.args)
  /\ status' = ExitStatus({done[i].code : i \in DOMAIN done})
  /\ UNCHANGED <<obj, mem, open, linked>> /\ Stop
-----------------------------------------------------------------------------
(* convert(): the list of converters. *)

\* Deviation: stdin is not copied when the list is exhausted.
TryConverterNoCopy ==
  /\ pc = "try" /\ UNCHANGED fbvars
  /\ IF todo # <<>> THEN Jump(Head(todo), "OK") ELSE Jump("finish", "CANNOT")

TryConverter ==
  /\ pc = "try"
  /\ UNCHANGED fbvars
  /\ \/ todo # <<>> /\ Jump(Head(todo), "OK")
     \/ todo = <<>> /\ h = Std /\ Call(h, h, FALSE, "main", "refuse")
     \/ todo = <<>> /\ h # Std /\ Jump("finish", "CANNOT")

\* The converters are exhausted; what copying stdin returned is not looked at.
Refuse ==
  /\ pc = "refuse" /\ UNCHANGED fbvars /\ Jump("finish", "CANNOT")

\* Deviation: the list is not advanced, the same converter is tried again.
ReturnedToSame ==
  /\ pc = "returned" /\ UNCHANGED fbvars
  /\ \/ err = "OK" /\ Jump("finish", "OK")
     \/ err \notin {"OK", "CANNOT"} /\ Jump("finish", "IOFAIL")
     \/ err = "CANNOT" /\ Jump("try", err)

Returned ==
  /\ pc = "returned"
  /\ UNCHANGED fbvars
  /\ \/ err = "OK" /\ Jump("finish", "OK")
     \/ err \notin {"OK", "CANNOT"} /\ Jump("finish", "IOFAIL")
     \/ /\ err = "CANNOT"
        /\ todo' = Tail(todo)
        /\ Goto("try")
        /\ UNCHANGED <<setup, orig, err, cur, req, fsize, call, used, eof, ok,
                       done>>
-----------------------------------------------------------------------------
(* copy_and_convert(). *)

CopyBytes == IF call.xlat THEN Xlat(mem[call.buf].data) ELSE mem[call.buf].data

CopyWrite == Try("copy_write", FileWrite(call.to, call.buf, CopyBytes),
                 "copy_read",
                 FileWriteFails(call.to, call.buf, CopyBytes), call.ret)

CopyRead ==
  /\ pc = "copy_read"
  /\ \/ /\ FileRead(call.from, call.buf)
        /\ IF mem'[call.buf].pos = 0 THEN Jump(call.ret, "OK")
                                     ELSE Jump("copy_write", err)
     \/ FileReadFails(call.from, call.buf) /\ Jump(call.ret, "IOFAIL")

\* The value of the final fflush() is dropped: at the end of a copy to
\* standard output bytes may be missing although 0 is returned.
CopyFlushFails ==
  /\ pc = "copy_read" /\ call.to = Std
  /\ Fetched(call.from, call.buf) = <<>>
  /\ FlushLoses
  /\ Jump(call.ret, "OK")
-----------------------------------------------------------------------------
(* convert_builtin(). *)

Builtin ==
  /\ pc = "builtin"
  /\ \/ /\ req.builtin = "cannot"
        /\ UNCHANGED fbvars /\ Jump("returned", "CANNOT")
     \/ /\ req.builtin = "identity" /\ h # Std
        /\ UNCHANGED fbvars /\ Jump("returned", "OK")
     \/ /\ req.builtin # "cannot" /\ h = Std
        /\ UNCHANGED fbvars
        /\ Call(h, h, req.builtin = "xlat", "main", "returned")
     \/ /\ req.builtin = "xlat" /\ h # Std
        /\ mem' = [mem EXCEPT !["main"] = EmptyBuffer]
        /\ UNCHANGED <<obj, open, linked, status>>
        /\ Jump("bi_seek", err)

BuiltinSeek == Try("bi_seek", FileSeek(h, 0), "bi_read",
                   FileSeekFails(h), "returned")

BuiltinRead ==
  /\ pc = "bi_read"
  /\ \/ /\ FileRead(h, "main")
        /\ IF mem'["main"].pos = 0 THEN Jump("returned", "OK")
                                   ELSE Jump("bi_back", err)
     \/ FileReadFails(h, "main") /\ Jump("returned", "IOFAIL")

\* Deviation: the block is written behind the one it was read from.
BuiltinNoSeekBack == Try("bi_back", FileSeek(h, obj[h].pos), "bi_write",
                         FileSeekFails(h), "returned")

\* Deviation: what file_seek() returned is not looked at.
BuiltinSeekBackUnchecked ==
  Try("bi_back", FileSeek(h, obj[h].pos - mem["main"].pos), "bi_write",
      FileSeekFails(h), "bi_write")

BuiltinSeekBack == Try("bi_back", FileSeek(h, obj[h].pos - mem["main"].pos),
                       "bi_write", FileSeekFails(h), "returned")

BuiltinWrite ==
  LET bytes == Xlat(mem["main"].data)
  IN Try("bi_write", FileWrite(h, "main", bytes), "bi_sync",
         FileWriteFails(h, "main", bytes), "returned")

\* The fseek() by 0 that ISO C asks for between a write and a read.
BuiltinSync == Try("bi_sync", FileSeek(h, obj[h].pos), "bi_read",
                   FileSeekFails(h), "returned")
-----------------------------------------------------------------------------
(* convert_iconv() and iconv_one_step(). *)

IconvStart ==
  /\ pc = "iconv" /\ UNCHANGED fbvars
  /\ IF req.iconv THEN Jump("ic_temp", err) ELSE Jump("returned", "CANNOT")

\* iconv_open() out of memory or descriptors, or iconv_close() failing, ends
\* the program.
IconvDies ==
  /\ \/ pc = "iconv" /\ req.iconv
     \/ pc = "ic_free"
  /\ "library" \in faults
  /\ status' = "trouble"
  /\ UNCHANGED <<obj, mem, open, linked>> /\ Stop

IconvTemp ==
  \/ Try("ic_temp", FileTemporary(TRUE), "ic_save",
         FileTemporaryFails, "ic_free")
  \/ pc = "ic_temp" /\ FileTemporaryExits /\ Stop

\* file_write(tempfile) of the block in the buffer, then the rest is copied.
IconvSave ==
  /\ pc = "ic_save"
  /\ \/ /\ FileWrite(Temp, "main", mem["main"].data)
        /\ Call(h, Temp, FALSE, "main", "ic_saved")
     \/ /\ FileWriteFails(Temp, "main", mem["main"].data)
        /\ Jump("ic_free", "IOFAIL")

IconvSaved ==
  \/ /\ pc = "ic_saved" /\ err # "OK"
     /\ UNCHANGED fbvars /\ Jump("ic_free", "IOFAIL")
  \/ /\ pc = "ic_saved" /\ err = "OK" /\ h = Std
     /\ UNCHANGED fbvars /\ Jump("ic_rewind", err)
  \/ /\ pc = "ic_saved" /\ err = "OK" /\ h # Std
     /\ Try("ic_saved", FileSeek(h, 0), "ic_rewind",
            FileSeekFails(h), "ic_free")

IconvRewind == Try("ic_rewind", FileSeek(Temp, 0), "ic_trunc",
                   FileSeekFails(Temp), "ic_free")

\* A named file is emptied; stdin is reopened as stdout, which cannot fail.
IconvTruncate ==
  \/ /\ pc = "ic_trunc" /\ h # Std
     /\ Try("ic_trunc", FileTruncate(h, 0), "ic_read",
            FileTruncateFails(h), "ic_free")
  \/ /\ pc = "ic_trunc" /\ h = Std
     /\ UNCHANGED fbvars /\ Jump("ic_read", err)

IconvRead ==
  /\ pc = "ic_read"
  /\ \/ /\ FileRead(Temp, "iconv")
        /\ used' = 0
        /\ eof' = (mem'["iconv"].pos < IconvSize)
        /\ IF mem'["iconv"].pos = -1 THEN Goto("ic_free") /\ err' = "IOFAIL"
                                     ELSE Goto("ic_conv") /\ UNCHANGED err
        /\ UNCHANGED <<setup, orig, cur, req, todo, fsize, call, ok, done>>
     \/ FileReadFails(Temp, "iconv") /\ Jump("ic_free", "IOFAIL")

\* A read into a buffer left at -1 writes in front of its heap block; besides
\* going unnoticed (Filled) it may end the program.
IconvReadAborts ==
  /\ pc = "ic_read" /\ mem["iconv"].pos = -1
  /\ status' = "aborted"
  /\ UNCHANGED <<obj, mem, open, linked>> /\ Stop

\* iconv() takes one character off the input, if its image still fits.
IconvCharacter ==
  LET s == mem["iconv"].data
      n == CharAt(s, used + 1)
      image == Image(s[used + 1])
  IN /\ pc = "ic_conv" /\ used < mem["iconv"].pos /\ n > 0
     /\ UNCHANGED <<obj, open, linked, status>>
     /\ IF mem["main"].pos + Len(image) <= BufSize
        THEN /\ mem' = [mem EXCEPT !["main"] =
                          [data |-> @.data \o image, pos |-> @.pos + Len(image)]]
             /\ used' = used + n
             /\ UNCHANGED pc
        ELSE Goto("ic_full") /\ UNCHANGED <<mem, used>>
     /\ UNCHANGED <<setup, orig, err, cur, req, todo, fsize, call, eof, ok,
                    done>>

\* E2BIG: write what there is and call iconv() again.
IconvFull == Try("ic_full", FileWrite(h, "main", mem["main"].data), "ic_conv",
                 FileWriteFails(h, "main", mem["main"].data), "ic_free")

\* The block is used up, or ends within a character (EINVAL) and more input
\* follows: that beginning is kept for the next read.
IconvBlockEnd ==
  LET s == mem["iconv"].data
      rest == SubSeq(s, used + 1, Len(s))
  IN /\ pc = "ic_conv"
     /\ \/ used = mem["iconv"].pos
        \/ used < mem["iconv"].pos /\ CharAt(s, used + 1) = -1 /\ ~eof
     /\ mem' = [mem EXCEPT !["iconv"] = [data |-> rest, pos |-> Len(rest)]]
     /\ UNCHANGED <<obj, open, linked, status>>
     /\ Jump("ic_write", err)

\* Deviation: the loop ends after its first block.
IconvWriteOnce ==
  Try("ic_write", FileWrite(h, "main", mem["main"].data), "ic_free",
      FileWriteFails(h, "main", mem["main"].data), "ic_free")

IconvWrite ==
  Try("ic_write", FileWrite(h, "main", mem["main"].data),
      IF eof THEN "ic_free" ELSE "ic_read",
      FileWriteFails(h, "main", mem["main"].data), "ic_free")

\* EILSEQ, or EINVAL at the end of the input.
IconvMalformed ==
  /\ pc = "ic_conv" /\ used < mem["iconv"].pos
  /\ LET n == CharAt(mem["iconv"].data, used + 1) IN n = 0 \/ (n = -1 /\ eof)
  /\ UNCHANGED fbvars
  /\ IF h = Std THEN Jump("ic_free", "IOFAIL") ELSE Jump("rc_from", err)

RecoverSeekFrom == Try("rc_from", FileSeek(Temp, 0), "rc_to",
                       FileSeekFails(Temp), "ic_free")
RecoverSeekTo == Try("rc_to", FileSeek(h, 0), "rc_trunc",
                     FileSeekFails(h), "ic_free")

\* Deviation: the rest of the iconv buffer is not dropped.
RecoverKeepsBuffer ==
  /\ pc = "rc_trunc"
  /\ \/ /\ FileTruncate(h, fsize)
        /\ Call(Temp, h, FALSE, "iconv", "rc_done")
     \/ FileTruncateFails(h) /\ Jump("ic_free", "IOFAIL")

\* The file gets its original length back, then its bytes, through the iconv
\* buffer.
RecoverTruncate ==
  /\ pc = "rc_trunc"
  /\ \/ /\ obj' = [obj EXCEPT ![h].data = Resized(@, h, fsize)]
        /\ mem' = [mem EXCEPT !["iconv"] = EmptyBuffer]
        /\ UNCHANGED <<open, linked, status>>
        /\ Call(Temp, h, FALSE, "iconv", "rc_done")
     \/ FileTruncateFails(h) /\ Jump("ic_free", "IOFAIL")

RecoverDone ==
  /\ pc = "rc_done" /\ UNCHANGED fbvars
  /\ Jump("ic_free", IF err = "OK" THEN "MALFORM" ELSE "IOFAIL")

\* file_free(tempfile): an unlinked temporary file is gone.
FreeTemp(l) ==
  /\ pc = l
  /\ FileClose(Temp)
  /\ obj' = [obj EXCEPT ![Temp] = EmptyBuffer]
  /\ UNCHANGED <<mem, linked>>
  /\ Jump("returned", err)

IconvFree == FreeTemp("ic_free")
-----------------------------------------------------------------------------
(* convert_recode(). *)

RecodeStart ==
  /\ pc = "recode"
  /\ IF ~req.recode THEN UNCHANGED fbvars /\ Jump("returned", "CANNOT")
     ELSE IF h = Std THEN UNCHANGED fbvars /\ Jump("rs_first", err)
     ELSE \/ /\ obj' = [obj EXCEPT ![h].pos = 0]
             /\ mem' = [mem EXCEPT !["main"] = EmptyBuffer]
             /\ UNCHANGED <<open, linked, status>>
             /\ Jump("rd_temp", err)
          \/ FileSeekFails(h) /\ Jump("returned", "IOFAIL")

\* recode_new_outer() fails: ERR_LIBCOM.
RecodeNoLibrary ==
  /\ pc = "recode" /\ "library" \in faults
  /\ UNCHANGED fbvars /\ Jump("returned", "LIBCOM")

RecodeTemp ==
  \/ Try("rd_temp", FileTemporary(TRUE), "rd_seek",
         FileTemporaryFails, "rd_free")
  \/ pc = "rd_temp" /\ FileTemporaryExits /\ Stop

RecodeSeek == Try("rd_seek", FileSeek(h, 0), "rd_task",
                  FileSeekFails(h), "rd_free")

\* The library reads the file to its end; on malformed input it stops.
RecodeTask ==
  /\ pc = "rd_task"
  /\ UNCHANGED <<mem, open, linked, status>>
  /\ LET s == SubSeq(obj[h].data, obj[h].pos + 1, Len(obj[h].data))
         out == Images(s)
     IN \/ /\ Valid(s)
           /\ obj' = [obj EXCEPT ![h].pos = Len(obj[h].data),
                                 ![Temp] = [data |-> out, pos |-> Len(out)]]
           /\ Jump("rd_file", err)
        \/ /\ ~Valid(s)
           /\ \E part \in Prefixes(out) :
                obj' = [obj EXCEPT ![h].pos = Len(obj[h].data),
                          ![Temp] = [data |-> part, pos |-> Len(part)]]
           /\ Jump("rd_free", "IOFAIL")

RecodeRewindFile == Try("rd_file", FileSeek(h, 0), "rd_rewind",
                        FileSeekFails(h), "rd_free")
RecodeRewindTemp == Try("rd_rewind", FileSeek(Temp, 0), "rd_trunc",
                        FileSeekFails(Temp), "rd_free")

RecodeTruncate ==
  /\ pc = "rd_trunc"
  /\ \/ FileTruncate(h, 0) /\ Call(Temp, h, FALSE, "main", "rd_free")
     \/ FileTruncateFails(h) /\ Jump("rd_free", "IOFAIL")

RecodeFree == FreeTemp("rd_free")

\* A task of the stdin branch: the bytes s go to standard output.  A failure
\* below RECODE_SYSTEM_ERROR leaves the branch running.
RecodeToStdout(s, consumed) ==
  /\ \E out \in IF Valid(s) THEN {Images(s)} ELSE Prefixes(Images(s)) :
       obj' = [obj EXCEPT !["stdout"] = Overwritten(@, out),
                          !["stdin"].pos = consumed]
  /\ ok' = Valid(s)
  /\ UNCHANGED <<mem, open, linked, status>>
  /\ UNCHANGED <<setup, orig, cur, req, todo, fsize, call, used, eof, done>>

RecodeBuffer ==
  /\ pc = "rs_first"
  /\ RecodeToStdout(mem["main"].data, obj["stdin"].pos)
  /\ Goto("rs_rest") /\ UNCHANGED err

\* The result is that of the second task alone.
RecodeRest ==
  /\ pc = "rs_rest"
  /\ LET in == obj["stdin"]
     IN RecodeToStdout(SubSeq(in.data, in.pos + 1, Len(in.data)), Len(in.data))
  /\ Goto("returned")
  /\ err' = IF ok' THEN "OK" ELSE "IOFAIL"

\* Either task ends with a system error.
RecodeSystemError ==
  /\ pc \in {"rs_first", "rs_rest"} /\ "write" \in faults
  /\ UNCHANGED fbvars /\ Jump("returned", "IOFAIL")
-----------------------------------------------------------------------------
(* convert_external(). *)

ExternStart ==
  /\ pc = "extern" /\ UNCHANGED fbvars
  /\ IF ~setup.extern THEN Jump("returned", "CANNOT")
     ELSE Jump(IF h = Std THEN "ex_temp" ELSE "ex_run", err)

ExternTemp ==
  \/ /\ pc = "ex_temp"
     /\ \/ FileTemporary(FALSE) /\ Call(h, Temp, FALSE, "main", "ex_saved")
        \/ FileTemporaryFails /\ Jump("returned", "IOFAIL")
  \/ pc = "ex_temp" /\ FileTemporaryExits /\ Stop

ExternSaved ==
  /\ pc = "ex_saved" /\ UNCHANGED fbvars
  /\ IF err = "OK" THEN Jump("ex_run", err) ELSE Jump("ex_free", err)

\* The child converts a file in place, or the temporary file to stdout.  It
\* succeeds on well formed input only; when it fails it may have written
\* part of its output, over the file too; it may not have run at all.
ExternRun ==
  LET in == IF h = Std THEN obj[Temp].data ELSE obj[h].data
      Deliver(bytes) ==
        obj' = [obj EXCEPT ![Sink(h)] =
                  IF h = Std THEN Overwritten(@, bytes)
                             ELSE [data |-> bytes, pos |-> @.pos]]
      next == IF h = Std THEN "ex_free" ELSE "returned"
  IN /\ pc = "ex_run"
     /\ UNCHANGED <<mem, open, linked, status>>
     /\ \/ Valid(in) /\ Deliver(Images(in)) /\ Jump(next, "OK")
        \/ UNCHANGED obj /\ \E e \in {"CANNOT", "EXEC"} : Jump(next, e)
        \/ \E part \in Prefixes(Images(in)) :
             Deliver(part) /\ Jump(next, "CANNOT")

\* fork() or waitpid() fails or the child is killed: the program ends.
ExternDies ==
  /\ pc = "ex_run" /\ "child" \in faults
  /\ status' = "trouble"
  /\ UNCHANGED <<obj, mem, open, linked>> /\ Stop

\* Deviation: the temporary file is closed and keeps its name.
ExternFreeOnly ==
  /\ pc = "ex_free"
  /\ FileClose(Temp)
  /\ obj' = [obj EXCEPT ![Temp] = EmptyBuffer]
  /\ UNCHANGED <<mem, linked>>
  /\ Jump("returned", err)

\* Unlink and free the temporary file.
ExternFree ==
  /\ pc = "ex_free"
  /\ FileClose(Temp)
  /\ \/ linked' = FALSE
     \/ "unlink" \in faults /\ UNCHANGED linked
  /\ obj' = [obj EXCEPT ![Temp] = EmptyBuffer]
  /\ UNCHANGED mem
  /\ Jump("returned", err)
-----------------------------------------------------------------------------
Main == OpenFile \/ ReadSample \/ Analyse \/ FinishFile \/ Exit
Choose == TryConverter \/ Refuse \/ Returned
Copy == CopyWrite \/ CopyRead \/ CopyFlushFails
BuiltinStep == \/ Builtin \/ BuiltinSeek \/ BuiltinRead \/ BuiltinSeekBack
               \/ BuiltinWrite \/ BuiltinSync
Recover == RecoverSeekFrom \/ RecoverSeekTo \/ RecoverTruncate \/ RecoverDone
IconvStep == \/ IconvStart \/ IconvDies \/ IconvTemp \/ IconvSave \/ IconvSaved
             \/ IconvRewind \/ IconvTruncate \/ IconvRead \/ IconvReadAborts
             \/ IconvCharacter \/ IconvFull \/ IconvBlockEnd \/ IconvWrite
             \/ IconvMalformed \/ Recover \/ IconvFree
RecodeStep == \/ RecodeStart \/ RecodeNoLibrary \/ RecodeTemp \/ RecodeSeek
              \/ RecodeTask \/ RecodeRewindFile \/ RecodeRewindTemp \/ RecodeTruncate
              \/ RecodeFree \/ RecodeBuffer \/ RecodeRest \/ RecodeSystemError
ExternStep == \/ ExternStart \/ ExternTemp \/ ExternSaved \/ ExternRun
              \/ ExternDies \/ ExternFree

Next == \/ Main \/ Choose \/ Copy
        \/ BuiltinStep \/ IconvStep \/ RecodeStep \/ ExternStep

Spec == Init /\ [][Next]_vars

\* A sequential program that blocks on nothing takes its next step.
FairSpec == Spec /\ WF_vars(Next)
-----------------------------------------------------------------------------
(* Properties. *)

Labels ==
  {"main", "sample", "analyse", "finish", "try", "refuse", "returned",
   "copy_write", "copy_read", "builtin", "bi_seek", "bi_read", "bi_back",
   "bi_write", "bi_sync", "iconv", "ic_temp", "ic_save", "ic_saved",
   "ic_rewind", "ic_trunc", "ic_read", "ic_conv", "ic_full", "ic_write",
   "ic_free", "rc_from", "rc_to", "rc_trunc", "rc_done", "recode", "rd_temp",
   "rd_seek", "rd_task", "rd_file", "rd_rewind", "rd_trunc", "rd_free",
   "stopped", "rs_first", "rs_rest", "extern", "ex_temp", "ex_saved",
   "ex_run", "ex_free"}

Errors == {"OK", "CANNOT", "IOFAIL", "MALFORM", "EXEC", "LIBCOM"}

\* The types of the control state.
TypeOK ==
  /\ open \subseteq Files \cup {Temp}
  /\ linked \in BOOLEAN
  /\ status \in ExitCodes \cup {"running", "aborted"}
  /\ pc \in Labels
  /\ err \in Errors
  /\ setup \in Setups
  /\ todo \in Seq(Converters)
  /\ cur \in 1 .. Len(setup.args) + 1
  /\ pc = "main" \/ pc = "stopped" \/ cur <= Len(setup.args)
  /\ call.ret \in Labels /\ call.buf \in Buffers

\* The buffer never holds more than its size, as file_read_limited() demands
\* of its callers (src/filebuf.c:175, 190), iconv() never runs past what was
\* read, and no write leaves a hole in its file.
BuffersInBounds ==
  /\ \A b \in Buffers :
       /\ mem[b].pos \in -1 .. Size(b)
       /\ Len(mem[b].data) = IF mem[b].pos = -1 THEN 0 ELSE mem[b].pos
  /\ pc \in {"ic_conv", "ic_full"} => used <= mem["iconv"].pos
  /\ pc \in {"bi_write", "ic_full", "ic_write"}
       => obj[Sink(h)].pos <= Len(obj[Sink(h)].data)
  /\ pc = "copy_write"
       => obj[Sink(call.to)].pos <= Len(obj[Sink(call.to)].data)

\* The result a converter owes for the bytes s.
Expected(by, s) ==
  CASE by = "none"    -> s
    [] by = "builtin" -> Xlat(s)
    [] OTHER          -> Images(s)

Contains(f, s) == obj[Sink(f)].data = s
Converted(i) ==
  LET f == setup.args[i] IN Contains(f, Expected(done[i].by, orig[f]))
Untouched(i) == Contains(setup.args[i], orig[setup.args[i]])

\* "Enca returns exit code 0 when all input files were successfully
\* proceeded" (man/enca.1:771) and 1 when it was "not clever enough": in
\* either case a file reported as converted is completely converted, and any
\* other is exactly what it was.
ExitStatusTruthful ==
  status \in {"success", "failure"} =>
    \A i \in DOMAIN done :
      IF done[i].code = "success" THEN Converted(i) ELSE Untouched(i)

\* A zero return of the converter chain means that this very file was
\* converted, all of it and nothing else (src/convert_iconv.c:38,
\* src/convert_recode.c:58: "returns 0 on success").
SuccessIsConversion ==
  \A i \in DOMAIN done : done[i].code = "success" => Converted(i)

\* An fflush() that fails goes unnoticed (src/convert.c:318) and an unlink()
\* that fails is accepted (src/filebuf.c:335); every other failure is loud.
LoudOnly == faults \cap {"flush", "unlink"} = {}
Listed(c) == \E i \in DOMAIN setup.convs : setup.convs[i] = c

\* Lists without librecode, which forgets the failure of the first block of
\* stdin, and with nothing behind the external converter, which may leave a
\* damaged file when it fails.
Streaming ==
  /\ ~Listed("recode")
  /\ \A i \in DOMAIN setup.convs : setup.convs[i] = "extern" => i = Len(setup.convs)

\* The same for every such list.
StreamedIsConverted == LoudOnly /\ Streaming => SuccessIsConversion

\* Standard input that no converter accepted, or that was not recognised, is
\* copied to standard output unchanged (src/convert.c:157, man/enca.1:209).
RefusalCopiesStdin ==
  \A i \in DOMAIN done :
    done[i].code = "failure" /\ setup.args[i] = Std => Untouched(i)

\* The same with the converters that run in the process, as long as the copy
\* itself does not fail: convert() drops its result (src/convert.c:160).
InternalRefusalCopies ==
  faults \cap {"read", "write", "flush"} = {} /\ ~Listed("extern")
    => RefusalCopiesStdin

\* What reaches stdout is a beginning of the unchanged input or of its
\* conversion, on every path: no bytes of a second attempt follow those of an
\* abandoned one, none are sent twice.
StdoutIsPrefix ==
  LoudOnly /\ Streaming =>
    \E s \in {orig[Std], Xlat(orig[Std]), Images(orig[Std])} :
      obj["stdout"].data \in Prefixes(s)

\* Standard output never holds anything but the input or its conversion, and the
\* input whole if no converter took it (src/convert.c:144-160).
StdoutIsTruthful == StdoutIsPrefix /\ InternalRefusalCopies

\* At every instant, so also if the program is killed at the next one, a
\* named file is whole (original or converted) on disk or in the temporary
\* file, or is being translated in place with every byte either original or
\* translated once; otherwise an i/o failure is on its way to the exit code.
Whole(f) ==
  \E s \in {orig[f], Images(orig[f])} :
    Contains(f, s) \/ (Temp \in open /\ obj[Temp].data = s)
InPlace(f) ==
  /\ DOMAIN obj[f].data = DOMAIN orig[f]
  /\ \A i \in DOMAIN orig[f] : obj[f].data[i] \in {orig[f][i], Xlat(orig[f])[i]}
LossIsReported ==
  \A i \in DOMAIN setup.args :
    \/ setup.args[i] = Std
    \/ Whole(setup.args[i])
    \/ InPlace(setup.args[i])
    \/ err = "IOFAIL" \/ status \in {"trouble", "aborted"}
    \/ \E j \in DOMAIN done : done[j].code = "trouble"

\* "Trying to recover... succeeded": after a conversion error the file has
\* its original contents and length again (src/convert_iconv.c:156).
RecoveredIsOriginal == err = "MALFORM" => Contains(h, orig[h])

\* Named files survive, or the user is told; a recovered one is as it was
\* (src/convert_iconv.c:156).
FilesSurvive == LossIsReported /\ RecoveredIsOriginal

\* A helper that fails closes its file; no later step uses a closed stream,
\* on any error path.
OnlyOpenStreams ==
  /\ pc \in {"sample", "bi_seek", "bi_read", "bi_back", "bi_write", "bi_sync",
             "ic_trunc", "ic_full", "ic_write", "rc_to", "rc_trunc",
             "recode", "rd_seek", "rd_task", "rd_file", "rd_trunc"}
       => Usable(h)
  /\ pc \in {"ic_save", "ic_rewind", "ic_read", "rc_from", "rd_rewind"}
       => Temp \in open
  /\ pc \in {"copy_write", "copy_read"} => Usable(call.from) /\ Usable(call.to)

\* The stdin copy handed to the external converter is removed on every path
\* that goes on, and an unlinked one never has a name (src/convert_extern.c:53).
NoTempLeft ==
  /\ "unlink" \notin faults
  /\ pc \in {"main", "stopped"}
  /\ status \in {"running", "success", "failure"}
  => ~linked

\* The loops over the file, the iconv() blocks and the converters all end.
Termination == <>(status # "running")

(***************************************************************************)
(* The promise of module Outcome, for lists of named files.                *)
(***************************************************************************)
Described(f) ==
  {d \in {"original", "converted"} :
     \/ d = "original" /\ Contains(f, orig[f])
     \/ /\ d = "converted"
        /\ \E s \in {Xlat(orig[f]), Images(orig[f])} : Contains(f, s)}

Promise == INSTANCE Outcome WITH
  N       <- Len(setup.args),
  content <- [i \in 1 .. Len(setup.args) |-> Described(setup.args[i])],
  verdict <- [i \in DOMAIN done |-> done[i].code],
  exit    <- status

\* The pipeline keeps the promise: one file at a time, whole unless trouble
\* was reported, the exit code the worst of the reports.
KeepsPromise == Promise!Spec
=============================================================================
