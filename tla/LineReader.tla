----------------------------- MODULE LineReader -----------------------------
(***************************************************************************)
(* Reading locale.alias by lines: file_getline() of src/filebuf.c.  A      *)
(* buffer is a sequence of bytes; it starts with whatever memory holds,    *)
(* and keeps what it held where nothing is read.                           *)
(***************************************************************************)
EXTENDS Ctype

NUL == 0

\* Deviation: the stream stays behind all that was read ahead.
AfterReadAhead(offset, got, line) == offset + got

\* Where the stream is after a line that was found: sought back to its end.
AfterLine(offset, got, line) == offset + line

\* file_getline() at offset in content: the line with the byte before its NUL,
\* the buffer and the offset after.  Chunks are read until there is an end of
\* line or the file ends; "none" at the end of the file, "stuck" if a line does
\* not fit the buffer, when the loop goes on reading nothing.
GetLine(content, offset, data, read_ahead) ==
  LET rest == SubSeq(content, offset + 1, Len(content))
      Want(k) == Min({k * read_ahead, Len(data) - 1})
      Got(k) == Min({Want(k), Len(rest)})
      chunks == {k \in 1 .. Len(data) :
                   Got(k) < Want(k) \/ LF \in {rest[i] : i \in 1 .. Got(k)}}
      got == Got(Min(chunks))
      buf == [i \in DOMAIN data |-> IF i <= got THEN rest[i] ELSE data[i]]
      eol == SelectInSubSeq(buf, 1, got, LAMBDA b : b = LF)
      end == IF eol > 0 THEN eol ELSE got + 1
  IN IF rest = <<>> THEN [is |-> "none"]
     ELSE IF chunks = {} THEN [is |-> "stuck"]
     ELSE [is |-> "line", line |-> SubSeq(buf, 1, end),
           data |-> [buf EXCEPT ![end + 1] = NUL],
           offset |-> IF eol > 0 THEN AfterLine(offset, got, eol)
                      ELSE offset + got]

\* All lines of a file, in turn, as locale_alias() reads them.
GetLines(content, data, read_ahead) ==
  LET Next(x) == GetLine(content, x.offset, x.data, read_ahead)
      OneMore(x, call) ==
        IF x.stuck \/ Next(x).is = "none" THEN x
        ELSE IF Next(x).is = "stuck" THEN [x EXCEPT !.stuck = TRUE]
        ELSE [x EXCEPT !.lines = Append(@, Next(x).line),
                       !.data = Next(x).data, !.offset = Next(x).offset]
  IN FoldLeft(OneMore,
              [lines |-> <<>>, data |-> data, offset |-> 0, stuck |-> FALSE],
              content)
=============================================================================
