------------------------------ MODULE MCScans ------------------------------
(* Samples of each kind, up to a length. *)
EXTENDS Scans

\* The rows of letters of all hooks.
HookRows ==
  {row \in UNION {ToSet(hook) : hook \in
             UNION {UNION {ToSet(step) : step \in ToSet(lang.hook)} :
                      lang \in ToSet(LANGUAGE_LIST)}} : "list" \in DOMAIN row}

MCAlphabet ==
  [eol |-> {97, CR, LF, 7},
   qp |-> {97, 61, CR, LF, 257, 258, 259},
   box |-> {32, 97, 128, 160, 129, 196, 179},
   utf8 |-> {97, 128, 187, 191, 195, 239, 240, 254},
   utf7 |-> {97, 33, 43, 45, 233, 65535},
   hz |-> {97, LF, TILDE, OPEN, 128, 8574, 12321},
   hz_raw |-> {97, LF, TILDE, OPEN, CLOSE},
   tex |-> {97, 32, CLOSE, 129, 130, 131, 132, 133},
   tex_raw |-> {97, 39, 72, 32, OPEN, TEX_ESCAPE},
   ucs |-> {97, CR, LF, 1025, 8364, 65279},
   order |-> 0 .. 3,
   pairs |-> {97, 46, 200, 201},
   squeeze |-> {0, 45, 65, 97, 98},
   hooks |-> {CR, LF, 225, 236, 240, 249},
   chinese |-> {97, 127, 128, 133, 164, 250},
   doubled |-> {97, 208, 1056, 1072, 1073, 1077, 9576},
   alias |-> 97 .. 104,
   letters |-> UNION {row.list : row \in HookRows},
   ambiguous |-> {CR, LF, 97, 131, 140, 161, 185, 190, 193, 223, 225, 254},
   builtin |-> 0 .. 255,
   lines |-> {97, 98, LF},
   requests |-> 1 .. 3]

MCMaxLength ==
  [eol |-> 6, qp |-> 5, box |-> 5, utf8 |-> 5,
   utf7 |-> 6, hz |-> 5, hz_raw |-> 6, tex |-> 5, tex_raw |-> 6, ucs |-> 5,
   order |-> 6, pairs |-> 6, squeeze |-> 6,
   hooks |-> 6, chinese |-> 5, doubled |-> 4, alias |-> 5,
   letters |-> 2, ambiguous |-> 3, builtin |-> 1, lines |-> 7, requests |-> 7]

\* Characters no charset of Russian has in its tables.
OnceAlphabet == [once |-> {97, 351, 8364}]
OnceMaxLength == [once |-> 3]

\* Short files, for buffers shorter than some of their lines.
LineAlphabet == [lines |-> {97, LF}]
LineMaxLength == [lines |-> 5]

MCOptions ==
  {[min_chars |-> n, strict |-> b, log_threshold |-> 95, tolerance |-> 248] :
     n \in {2, 3}, b \in BOOLEAN}
=============================================================================
