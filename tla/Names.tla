------------------------------- MODULE Names -------------------------------
(***************************************************************************)
(* Encoding names (lib/encnames.c): how names are compared and looked up,  *)
(* and how charset/surface is taken apart.  A name is a sequence of bytes. *)
(***************************************************************************)
EXTENDS Ctype

ToLower(b) == IF b \in 65 .. 90 THEN b + 32 ELSE b

\* The first place from i on with a letter or digit.
Skip(s, i) == Min({k \in i .. Len(s) + 1 : k > Len(s) \/ IsAlnum(s[k])})

\* squeeze_compare(): negative, zero or positive.
SqueezeCompare(x, y) ==
  LET at(s, i) == IF i > Len(s) THEN 0 ELSE ToLower(s[i])
      behind(s, i) == IF i > Len(s) THEN i ELSE i + 1
      from[p \in (1 .. Len(x) + 1) \X (1 .. Len(y) + 1)] ==
        LET a == Skip(x, p[1])
            b == Skip(y, p[2])
        IN IF p[1] > Len(x) /\ p[2] > Len(y) THEN 0
           ELSE IF at(x, a) # at(y, b) THEN at(x, a) - at(y, b)
           ELSE from[<<behind(x, a), behind(y, b)>>]
  IN from[<<1, 1>>]

\* Deviation: the search stops with two names between the bounds.
ApartByThree(i1, i2) == i1 + 3 < i2

\* alias_search() goes on while a name is left between the bounds.
Apart(i1, i2) == i1 + 1 < i2

\* alias_search(); places start at 1, -1 is a name that is not there.
AliasSearch(alist, s) ==
  LET n == Len(alist)
      Sign(i) == SqueezeCompare(s, alist[i])
      search[p \in (1 .. n) \X (1 .. n)] ==
        LET i1 == p[1]
            i2 == p[2]
            im == (i1 + i2) \div 2
        IN IF ~Apart(i1, i2) THEN IF Sign(i1 + 1) = 0 THEN i1 + 1 ELSE -1
           ELSE IF Sign(im) = 0 THEN im
           ELSE IF Sign(im) > 0 THEN search[<<im, i2>>] ELSE search[<<i1, im>>]
  IN IF Sign(1) < 0 THEN -1 ELSE IF Sign(1) = 0 THEN 1
     ELSE IF Sign(n) > 0 THEN -1 ELSE IF Sign(n) = 0 THEN n
     ELSE search[<<1, n>>]
-----------------------------------------------------------------------------
\* check_encoding_name() says yes: allowed characters, one letter or digit.
IsEncodingName(name) ==
  /\ \A i \in DOMAIN name : IsName(name[i])
  /\ \E i \in DOMAIN name : IsAlnum(name[i])

CS_UNKNOWN == -1
SURFACE_UNKNOWN == "unknown"

\* enca_name_to_charset(), a charset being the place of its name
NameToCharset(aliases, name) ==
  LET i == AliasSearch(aliases, name)
  IN IF IsEncodingName(name) /\ i > 0 THEN i ELSE CS_UNKNOWN

\* SURFACE_INFO, the entries that have a name: CR LF CRLF 21 4321 qp
SurfaceInfo ==
  <<[enca |-> <<67, 82>>, bit |-> "cr"],
    [enca |-> <<76, 70>>, bit |-> "lf"],
    [enca |-> <<67, 82, 76, 70>>, bit |-> "crlf"],
    [enca |-> <<50, 49>>, bit |-> "21"],
    [enca |-> <<52, 51, 50, 49>>, bit |-> "4321"],
    [enca |-> <<113, 112>>, bit |-> "qp"]>>

\* enca_name_to_surface(): the first entry the comparison is not zero for.
NameToSurface(sname) ==
  LET Differs(e) == SqueezeCompare(e.enca, sname) # 0
      i == SelectInSeq(SurfaceInfo, Differs)
  IN IF i = 0 THEN SURFACE_UNKNOWN ELSE SurfaceInfo[i].bit

\* check_surface_consistency()
IsConsistent(surface) ==
  /\ Cardinality(surface \cap {"cr", "lf", "crlf", "mix", "bin"}) <= 1
  /\ Cardinality(surface \cap {"21", "4321", "mix-order"}) <= 1
  /\ SURFACE_UNKNOWN \notin surface

SLASH == 47

\* enca_parse_encoding_name().  The second slash is looked for in the part
\* before the first, where there is none, so all that follows is one surface.
ParseEncodingName(aliases, name) ==
  LET q == MemChr(name, SLASH, 1)
      charset == NameToCharset(aliases,
                               IF q = 0 THEN name ELSE SubSeq(name, 1, q - 1))
      surface == IF q = 0 \/ charset = CS_UNKNOWN THEN {}
                 ELSE {NameToSurface(SubSeq(name, q + 1, Len(name)))}
  IN [charset |-> charset,
      surface |-> IF IsConsistent(surface) THEN surface
                  ELSE surface \cup {SURFACE_UNKNOWN}]

\* Token 0 is a name that is no surface, any other an entry of SurfaceInfo.
SurfaceName(t) == IF t = 0 THEN <<120>> ELSE SurfaceInfo[t].enca

\* "Unrecognized surfaces are considered only a minor problem causing
\* ENCA_SURFACE_UNKNOWN flag to be set in the result, beside recognized surface
\* flags" (lib/encnames.c:341): of charset/surface and charset/surface/surface
\* every surface that has a name is in the result, and unknown ones only when
\* one was given.
SurfacesAreParsed ==
  \A n \in 1 .. 2 : \A these \in [1 .. n -> 0 .. Len(SurfaceInfo)] :
    LET spec == <<97>> \o FlattenSeq([i \in 1 .. n |-> <<SLASH>> \o SurfaceName(these[i])])
        named == {SurfaceInfo[t].bit : t \in {these[i] : i \in 1 .. n} \ {0}}
        surface == ParseEncodingName(<<<<97>>>>, spec).surface
    IN /\ named \subseteq surface
       /\ SURFACE_UNKNOWN \in surface
            <=> (\E i \in 1 .. n : these[i] = 0) \/ ~IsConsistent(named)
=============================================================================
