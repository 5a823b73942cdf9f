------------------------------ MODULE Filebuf ------------------------------
(***************************************************************************)
(* The i/o layer of enca (src/filebuf.c): File handles, the byte buffers   *)
(* they share, and the objects behind them (files on disk, the temporary   *)
(* file, standard input and output).                                       *)
(*                                                                         *)
(* Every file_* function of the program is an action operator here, and    *)
(* every way it can fail is a second one, enabled when the environment may *)
(* inject that fault.  A program step conjoins one of them with its own    *)
(* control variables.                                                      *)
(*                                                                         *)
(* A byte is a tuple <<stage, kind, owner, index>>: stage "in" for a byte  *)
(* of the original contents of object owner, "out" for a converted one, so *)
(* that a byte lost, duplicated, moved, converted twice or coming from     *)
(* another file is visible.                                                *)
(***************************************************************************)
EXTENDS Integers, Sequences

CONSTANTS
  Files,      \* handles of the named files
  BufSize,    \* size of the persistent buffer, 0x10000 in the program
  IconvSize,  \* size of the iconv input buffer, BUFSIZ in the program
  FaultSets   \* the sets of failures the environment may inject in one run

FaultKinds == {"open", "read", "write", "seek", "truncate", "mkstemp",
               "fdopen", "unlink", "close", "flush", "child", "library"}

\* The handle whose name is NULL, and the temporary file.
Std == "std"
Temp == "temp"

\* A buffer must hold the longest character and its image for iconv() to
\* make progress; the program's sizes are 65536 and BUFSIZ.
ASSUME FilebufAssumption ==
  /\ Files \cap {Std, Temp, "stdin", "stdout"} = {}
  /\ BufSize \in Nat /\ BufSize >= 2
  /\ IconvSize \in Nat /\ IconvSize >= 2
  /\ FaultSets \subseteq SUBSET FaultKinds

VARIABLES
  obj,     \* object -> [data, pos]: its bytes, and the stream's position
  mem,     \* buffer -> [data, pos]: pos = Len(data), or -1 after a failed read
  open,    \* handles whose stream is not NULL (Std never has a stream)
  linked,  \* the temporary file still has its name in /tmp
  status,  \* "running", the exit status of the process, or "aborted"
  setup    \* the command line and the faults of this run, fixed

\* The failures that may be injected in this run.
faults == setup.faults

fbvars == <<obj, mem, open, linked, status>>

Objects == Files \cup {"stdin", "stdout", Temp}
Buffers == {"main", "iconv"}
Size(b) == IF b = "main" THEN BufSize ELSE IconvSize

\* The object a handle reads from and writes to.
Source(h) == IF h = Std THEN "stdin" ELSE h
Sink(h) == IF h = Std THEN "stdout" ELSE h

\* EXIT_SUCCESS, EXIT_FAILURE and EXIT_TROUBLE: 0, 1 and 2.
ExitCodes == {"success", "failure", "trouble"}

Usable(h) == h = Std \/ h \in open

Smaller(m, n) == IF m < n THEN m ELSE n
EmptyBuffer == [data |-> <<>>, pos |-> 0]
FailedBuffer == [data |-> <<>>, pos |-> -1]

-----------------------------------------------------------------------------
\* Deviation: the whole buffer is asked for, though part of it is in use.
FetchedRegardless(h, b) ==
  LET o == obj[Source(h)]
  IN SubSeq(o.data, o.pos + 1, Smaller(Len(o.data), o.pos + Size(b)))

\* What fread() delivers when the buffer is to hold Size(b) bytes.
Fetched(h, b) ==
  LET o == obj[Source(h)]
  IN SubSeq(o.data, o.pos + 1,
            Smaller(Len(o.data), o.pos + Size(b) - mem[b].pos))

\* The buffer after the read.  A buffer left at position -1 by a failed read
\* receives the first byte in front of its data.
Filled(h, b) ==
  LET new == Fetched(h, b)
      old == mem[b]
  IN [data |-> IF old.pos = -1 /\ new # <<>> THEN Tail(new)
                                             ELSE old.data \o new,
      pos  |-> old.pos + Len(new)]

FileRead(h, b) ==
  /\ mem' = [mem EXCEPT ![b] = Filled(h, b)]
  /\ obj' = [obj EXCEPT ![Source(h)].pos = @ + Len(Fetched(h, b))]
  /\ UNCHANGED <<open, linked, status>>

\* file_close: closing the magic handle or a closed file does nothing; an
\* fclose() that fails ends the program.
FileClose(h) ==
  /\ open' = open \ {h}
  /\ \/ UNCHANGED status
     \/ "close" \in faults /\ h \in open /\ status' = "trouble"

FileReadFails(h, b) ==
  /\ "read" \in faults
  /\ mem[b].pos < Size(b)
  /\ mem' = [mem EXCEPT ![b] = FailedBuffer]
  /\ FileClose(h)
  /\ UNCHANGED <<obj, linked>>

\* The object with bytes written over it from its position on.
Overwritten(o, bytes) ==
  [data |-> SubSeq(o.data, 1, o.pos) \o bytes
              \o SubSeq(o.data, o.pos + Len(bytes) + 1, Len(o.data)),
   pos  |-> o.pos + Len(bytes)]

\* file_write of bytes, the contents of buffer b after any translation.
FileWrite(h, b, bytes) ==
  /\ obj' = [obj EXCEPT ![Sink(h)] = Overwritten(@, bytes)]
  /\ mem' = [mem EXCEPT ![b] = EmptyBuffer]
  /\ UNCHANGED <<open, linked, status>>

\* A short write: a proper prefix reaches the file, the buffer is kept.
FileWriteFails(h, b, bytes) ==
  /\ "write" \in faults
  /\ \E k \in 0 .. Len(bytes) - 1 :
       obj' = [obj EXCEPT ![Sink(h)] = Overwritten(@, SubSeq(bytes, 1, k))]
  /\ FileClose(h)
  /\ UNCHANGED <<mem, linked>>

FileSeek(h, pos) ==
  /\ obj' = [obj EXCEPT ![h].pos = pos]
  /\ UNCHANGED <<mem, open, linked, status>>

FileSeekFails(h) ==
  /\ "seek" \in faults
  /\ FileClose(h)
  /\ UNCHANGED <<obj, mem, linked>>

\* ftruncate() also extends a shorter file, with zero bytes.
Resized(s, h, n) ==
  [i \in 1 .. n |-> IF i <= Len(s) THEN s[i] ELSE <<"zero", "z", h, i>>]

FileTruncate(h, n) ==
  /\ obj' = [obj EXCEPT ![h].data = Resized(@, h, n)]
  /\ UNCHANGED <<mem, open, linked, status>>

FileTruncateFails(h) ==
  /\ "truncate" \in faults
  /\ FileClose(h)
  /\ UNCHANGED <<obj, mem, linked>>

\* Deviation: standard input is opened like any other file.
FileOpenReally(h) ==
  /\ mem' = [mem EXCEPT !["main"] = EmptyBuffer]
  /\ obj' = [obj EXCEPT ![Source(h)].pos = 0]
  /\ open' = open \cup {h}
  /\ UNCHANGED <<linked, status>>

\* file_open in a mode starting with `r': the buffer is reset first, then the
\* stream is opened at its beginning; opening stdin is fake and cannot fail.
FileOpen(h) ==
  /\ mem' = [mem EXCEPT !["main"] = EmptyBuffer]
  /\ IF h = Std THEN UNCHANGED <<obj, open>>
                ELSE /\ obj' = [obj EXCEPT ![h].pos = 0]
                     /\ open' = open \cup {h}
  /\ UNCHANGED <<linked, status>>

FileOpenFails(h) ==
  /\ "open" \in faults /\ h # Std
  /\ mem' = [mem EXCEPT !["main"] = EmptyBuffer]
  /\ UNCHANGED <<obj, open, linked, status>>

\* file_temporary: a fresh empty file; with ulink its name is removed at once,
\* which may fail with no more than a message.
FileTemporary(ulink) ==
  /\ obj' = [obj EXCEPT ![Temp] = EmptyBuffer]
  /\ open' = open \cup {Temp}
  /\ \/ linked' = ~ulink
     \/ ulink /\ "unlink" \in faults /\ linked' = TRUE
  /\ UNCHANGED <<mem, status>>

\* mkstemp() fails: no file.
FileTemporaryFails == "mkstemp" \in faults /\ UNCHANGED fbvars

\* fdopen() fails: the program ends, the file keeps its name.
FileTemporaryExits ==
  /\ "fdopen" \in faults
  /\ linked' = TRUE
  /\ status' = "trouble"
  /\ UNCHANGED <<obj, mem, open>>

\* fflush() of stdout fails: some of the bytes written so far never arrive.
FlushLoses ==
  /\ "flush" \in faults
  /\ \E k \in 0 .. Len(obj["stdout"].data) - 1 :
       obj' = [obj EXCEPT !["stdout"] =
                 [data |-> SubSeq(@.data, 1, k), pos |-> k]]
  /\ UNCHANGED <<mem, open, linked, status>>
=============================================================================
