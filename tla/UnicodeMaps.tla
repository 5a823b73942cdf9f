---------------------------- MODULE UnicodeMaps ----------------------------
(***************************************************************************)
(* What the bytes of the 8bit charsets mean (lib/unicodemap.c), and what   *)
(* the built-in converter makes of them (src/convert.c).                   *)
(***************************************************************************)
EXTENDS Integers, SequencesExt, LanguageTable

NO_CHR == \hffff

\* n characters from c on
Run(c, n) == [i \in 1 .. n |-> c + i - 1]

(* The upper parts of the charsets, in hexadecimal.                        *)

ISO88592 ==
  <<\ha0, \h104, \h2d8, \h141, \ha4, \h13d, \h15a, \ha7, \ha8, \h160, \h15e,
    \h164, \h179, \had, \h17d, \h17b, \hb0, \h105, \h2db, \h142, \hb4, \h13e,
    \h15b, \h2c7, \hb8, \h161, \h15f, \h165, \h17a, \h2dd, \h17e, \h17c, \h154,
    \hc1, \hc2, \h102, \hc4, \h139, \h106, \hc7, \h10c, \hc9, \h118, \hcb,
    \h11a, \hcd, \hce, \h10e, \h110, \h143, \h147, \hd3, \hd4, \h150, \hd6,
    \hd7, \h158, \h16e, \hda, \h170, \hdc, \hdd, \h162, \hdf, \h155, \he1,
    \he2, \h103, \he4, \h13a, \h107, \he7, \h10d, \he9, \h119, \heb, \h11b,
    \hed, \hee, \h10f, \h111, \h144, \h148, \hf3, \hf4, \h151, \hf6, \hf7,
    \h159, \h16f, \hfa, \h171, \hfc, \hfd, \h163, \h2d9>>
ISO88594 ==
  <<\ha0, \h104, \h138, \h156, \ha4, \h128, \h13b, \ha7, \ha8, \h160, \h112,
    \h122, \h166, \had, \h17d, \haf, \hb0, \h105, \h2db, \h157, \hb4, \h129,
    \h13c, \h2c7, \hb8, \h161, \h113, \h123, \h167, \h14a, \h17e, \h14b,
    \h100>> \o Run(\hc1, 6) \o <<\h12e, \h10c, \hc9, \h118, \hcb, \h116, \hcd,
    \hce, \h12a, \h110, \h145, \h14c, \h136>> \o Run(\hd4, 5) \o <<\h172, \hda,
    \hdb, \hdc, \h168, \h16a, \hdf, \h101>> \o Run(\he1, 6) \o <<\h12f, \h10d,
    \he9, \h119, \heb, \h117, \hed, \hee, \h12b, \h111, \h146, \h14d, \h137>>
  \o Run(\hf4, 5) \o <<\h173, \hfa, \hfb, \hfc, \h169, \h16b, \h2d9>>
ISO88595 ==
  <<\ha0>> \o Run(\h401, 12) \o <<\had>> \o Run(\h40e, 66) \o <<\h2116>>
  \o Run(\h451, 12) \o <<\ha7, \h45e, \h45f>>
ISO885913 ==
  <<\ha0, \h201d, \ha2, \ha3, \ha4, \h201e, \ha6, \ha7, \hd8, \ha9, \h156,
    \hab, \hac, \had, \hae, \hc6, \hb0, \hb1, \hb2, \hb3, \h201c, \hb5, \hb6,
    \hb7, \hf8, \hb9, \h157, \hbb, \hbc, \hbd, \hbe, \he6, \h104, \h12e, \h100,
    \h106, \hc4, \hc5, \h118, \h112, \h10c, \hc9, \h179, \h116, \h122, \h136,
    \h12a, \h13b, \h160, \h143, \h145, \hd3, \h14c, \hd5, \hd6, \hd7, \h172,
    \h141, \h15a, \h16a, \hdc, \h17b, \h17d, \hdf, \h105, \h12f, \h101, \h107,
    \he4, \he5, \h119, \h113, \h10d, \he9, \h17a, \h117, \h123, \h137, \h12b,
    \h13c, \h161, \h144, \h146, \hf3, \h14d, \hf5, \hf6, \hf7, \h173, \h142,
    \h15b, \h16b, \hfc, \h17c, \h17e, \h2019>>
ISO885916 ==
  <<\ha0, \h104, \h105, \h141, \h20ac, \hab, \h160, \ha7, \h161, \ha9, \h218,
    \h201e, \h179, \had, \h17a, \h17b, \hb0, \hb1, \h10c, \h142, \h17d, \h201d,
    \hb6, \hb7, \h17e, \h10d, \h219, \hbb, \h152, \h153, \h178, \h17c, \hc0,
    \hc1, \hc2, \h102, \hc4, \h106>> \o Run(\hc6, 10) \o <<\h110, \h143, \hd2,
    \hd3, \hd4, \h150, \hd6, \h15a, \h170, \hd9, \hda, \hdb, \hdc, \h118,
    \h21a, \hdf, \he0, \he1, \he2, \h103, \he4, \h107>> \o Run(\he6, 10)
  \o <<\h111, \h144, \hf2, \hf3, \hf4, \h151, \hf6, \h15b, \h171, \hf9, \hfa,
    \hfb, \hfc, \h119, \h21b, \hff>>
CP1125 ==
  Run(\h410, 48) \o <<\h2591, \h2592, \h2593, \h2502, \h2524, \h2561, \h2562,
    \h2556, \h2555, \h2563, \h2551, \h2557, \h255d, \h255c, \h255b, \h2510,
    \h2514, \h2534, \h252c, \h251c, \h2500, \h253c, \h255e, \h255f, \h255a,
    \h2554, \h2569, \h2566, \h2560, \h2550, \h256c, \h2567, \h2568, \h2564,
    \h2565, \h2559, \h2558, \h2552, \h2553, \h256b, \h256a, \h2518, \h250c,
    \h2588, \h2584, \h258c, \h2590, \h2580>> \o Run(\h440, 16) \o <<\h401,
    \h451, \h490, \h491, \h404, \h454, \h406, \h456, \h407, \h457, \hb7,
    \h221a, \h2116, \ha4, \h25a0, \ha0>>
CP1250 ==
  <<NO_CHR, NO_CHR, \h201a, NO_CHR, \h201e, \h2026, \h2020, \h2021, NO_CHR,
    \h2030, \h160, \h2039, \h15a, \h164, \h17d, \h179, NO_CHR, \h2018, \h2019,
    \h201c, \h201d, \h2022, \h2013, \h2014, NO_CHR, \h2122, \h161, \h203a,
    \h15b, \h165, \h17e, \h17a, \ha0, \h2c7, \h2d8, \h141, \ha4, \h104, \ha6,
    \ha7, \ha8, \ha9, \h15e, \hab, \hac, \had, \hae, \h17b, \hb0, \hb1, \h2db,
    \h142>> \o Run(\hb4, 5) \o <<\h105, \h15f, \hbb, \h13d, \h2dd, \h13e,
    \h17c, \h154, \hc1, \hc2, \h102, \hc4, \h139, \h106, \hc7, \h10c, \hc9,
    \h118, \hcb, \h11a, \hcd, \hce, \h10e, \h110, \h143, \h147, \hd3, \hd4,
    \h150, \hd6, \hd7, \h158, \h16e, \hda, \h170, \hdc, \hdd, \h162, \hdf,
    \h155, \he1, \he2, \h103, \he4, \h13a, \h107, \he7, \h10d, \he9, \h119,
    \heb, \h11b, \hed, \hee, \h10f, \h111, \h144, \h148, \hf3, \hf4, \h151,
    \hf6, \hf7, \h159, \h16f, \hfa, \h171, \hfc, \hfd, \h163, \h2d9>>
CP1251 ==
  <<\h402, \h403, \h201a, \h453, \h201e, \h2026, \h2020, \h2021, \h20ac,
    \h2030, \h409, \h2039, \h40a, \h40c, \h40b, \h40f, \h452, \h2018, \h2019,
    \h201c, \h201d, \h2022, \h2013, \h2014, NO_CHR, \h2122, \h459, \h203a,
    \h45a, \h45c, \h45b, \h45f, \ha0, \h40e, \h45e, \h408, \ha4, \h490, \ha6,
    \ha7, \h401, \ha9, \h404, \hab, \hac, \had, \hae, \h407, \hb0, \hb1, \h406,
    \h456, \h491, \hb5, \hb6, \hb7, \h451, \h2116, \h454, \hbb, \h458, \h405,
    \h455, \h457>> \o Run(\h410, 64)
CP1257 ==
  <<\h20ac, NO_CHR, \h201a, NO_CHR, \h201e, \h2026, \h2020, \h2021, NO_CHR,
    \h2030, NO_CHR, \h2039, NO_CHR, NO_CHR, NO_CHR, NO_CHR, NO_CHR, \h2018,
    \h2019, \h201c, \h201d, \h2022, \h2013, \h2014, NO_CHR, \h2122, NO_CHR,
    \h203a, NO_CHR, NO_CHR, NO_CHR, NO_CHR, \ha0, NO_CHR, \ha2, \ha3, \ha4,
    NO_CHR, \ha6, \ha7, \hd8, \ha9, \h156, \hab, \hac, \had, \hae, \hc6, \hb0,
    \hb1, \hb2, \hb3, NO_CHR, \hb5, \hb6, \hb7, \hf8, \hb9, \h157, \hbb, \hbc,
    \hbd, \hbe, \he6, \h104, \h12e, \h100, \h106, \hc4, \hc5, \h118, \h112,
    \h10c, \hc9, \h179, \h116, \h122, \h136, \h12a, \h13b, \h160, \h143, \h145,
    \hd3, \h14c, \hd5, \hd6, \hd7, \h172, \h141, \h15a, \h16a, \hdc, \h17b,
    \h17d, \hdf, \h105, \h12f, \h101, \h107, \he4, \he5, \h119, \h113, \h10d,
    \he9, \h17a, \h117, \h123, \h137, \h12b, \h13c, \h161, \h144, \h146, \hf3,
    \h14d, \hf5, \hf6, \hf7, \h173, \h142, \h15b, \h16b, \hfc, \h17c, \h17e,
    NO_CHR>>
IBM852 ==
  <<\hc7, \hfc, \he9, \he2, \he4, \h16f, \h107, \he7, \h142, \heb, \h150,
    \h151, \hee, \h179, \hc4, \h106, \hc9, \h139, \h13a, \hf4, \hf6, \h13d,
    \h13e, \h15a, \h15b, \hd6, \hdc, \h164, \h165, \h141, \hd7, \h10d, \he1,
    \hed, \hf3, \hfa, \h104, \h105, \h17d, \h17e, \h118, \h119, \hac, \h17a,
    \h10c, \h15f, \hab, \hbb, \h2591, \h2592, \h2593, \h2502, \h2524, \hc1,
    \hc2, \h11a, \h15e, \h2563, \h2551, \h2557, \h255d, \h17b, \h17c, \h2510,
    \h2514, \h2534, \h252c, \h251c, \h2500, \h253c, \h102, \h103, \h255a,
    \h2554, \h2569, \h2566, \h2560, \h2550, \h256c, \ha4, \h111, \h110, \h10e,
    \hcb, \h10f, \h147, \hcd, \hce, \h11b, \h2518, \h250c, \h2588, \h2584,
    \h162, \h16e, \h2580, \hd3, \hdf, \hd4, \h143, \h144, \h148, \h160, \h161,
    \h154, \hda, \h155, \h170, \hfd, \hdd, \h163, \hb4, \had, \h2dd, \h2db,
    \h2c7, \h2d8, \ha7, \hf7, \hb8, \hb0, \ha8, \h2d9, \h171, \h158, \h159,
    \h25a0, \ha0>>
IBM855 ==
  <<\h452, \h402, \h453, \h403, \h451, \h401, \h454, \h404, \h455, \h405,
    \h456, \h406, \h457, \h407, \h458, \h408, \h459, \h409, \h45a, \h40a,
    \h45b, \h93, \h45c, \h40c, \h45e, \h40e, \h45f, \h40f, \h44e, \h42e, \h44a,
    \h42a, \h430, \h410, \h431, \h411, \h446, \h426, \h434, \h414, \h435,
    \h415, \h444, \h424, \h433, \h413, \hab, \hbb, \h2591, \h2592, \h2593,
    \h2502, \h2524, \h445, \h425, \h438, \h418, \h2563, \h2551, \h2557, \h255d,
    \h439, \h419, \h2510, \h2514, \h2534, \h252c, \h251c, \h2500, \h253c,
    \h43a, \h41a, \h255a, \h2554, \h2569, \h2566, \h2560, \h2550, \h256c, \ha4,
    \h43b, \h41b, \h43c, \h41c, \h43d, \h41d, \h43e, \h41e, \h43f, \h2518,
    \h250c, \h2588, \h2584, \h41f, \h44f, \h2580, \h42f, \h440, \h420, \h441,
    \h421, \h442, \h422, \h443, \h423, \h436, \h416, \h432, \h412, \h44c,
    \h42c, \hb4, \had, \h44b, \h42b, \h437, \h417, \h448, \h428, \h44d, \h42d,
    \h449, \h429, \h447, \h427, NO_CHR, \h25a0, \ha0>>
IBM775 ==
  <<\h106, \hfc, \he9, \h101, \he4, \h123, \he5, \h107, \h142, \h113, \h156,
    \h157, \h12b, \h179, \hc4, \hc5, \hc9, \he6, \hc6, \h14d, \hf6, \h122,
    \ha2, \h15a, \h15b, \hd6, \hdc, \hf8, \ha3, \hd8, \hd7, \ha4, \h100, \h12a,
    \hf3, \h17b, \h17c, \h17a, \h201d, \ha6, \ha9, \hae, \hac, \hbd, \hbc,
    \h141, \hab, \hbb, \h2591, \h2592, \h2593, \h2502, \h2524, \h104, \h10c,
    \h118, \h116, \h2563, \h2551, \h2557, \h255d, \h12e, \h160, \h2510, \h2514,
    \h2534, \h252c, \h251c, \h2500, \h253c, \h172, \h16a, \h255a, \h2554,
    \h2569, \h2566, \h2560, \h2550, \h256c, \h17d, \h105, \h10d, \h119, \h117,
    \h12f, \h161, \h173, \h16b, \h17e, \h2518, \h250c, \h2588, \h2584, \h258c,
    \h2590, \h2580, \hd3, \hdf, \h14c, \h143, \hf5, \hd5, \hb5, \h144, \h136,
    \h137, \h13b, \h13c, \h146, \h112, \h145, \h2019, \had, \hb1, \h201c, \hbe,
    \hb6, \ha7, \hf7, \h201e, \hb0, \h2219, \hb7, \hb9, \hb3, \hb2, \h25a0,
    \ha0>>
IBM866 ==
  Run(\h410, 48) \o <<\h2591, \h2592, \h2593, \h2502, \h2524, \h2561, \h2562,
    \h2556, \h2555, \h2563, \h2551, \h2557, \h255d, \h255c, \h255b, \h2510,
    \h2514, \h2534, \h252c, \h251c, \h2500, \h253c, \h255e, \h255f, \h255a,
    \h2554, \h2569, \h2566, \h2560, \h2550, \h256c, \h2567, \h2568, \h2564,
    \h2565, \h2559, \h2558, \h2552, \h2553, \h256b, \h256a, \h2518, \h250c,
    \h2588, \h2584, \h258c, \h2590, \h2580>> \o Run(\h440, 16) \o <<\h401,
    \h451, \h404, \h454, \h407, \h457, \h40e, \h45e, \hb0, \h2219, \hb7,
    \h221a, \h2116, \ha4, \h25a0, \ha0>>
BALTIC ==
  <<\ha0, \h201d>> \o Run(\ha2, 6) \o <<\hd8, \ha9, \h201e, \hab, \hac, \had,
    \hae, \hc6>> \o Run(\hb0, 8) \o <<\hf8, \hb9, \h201c, \hbb, \hbc, \hbd,
    \hbe, \he6, \h12e, \h116, \h100, \h106, \hc4, \hc5, \h104, \h10c, \h122,
    \hc9, \h17d, \h118, \h112, \h136, \h12a, \h13b, \h141, \h145, \h143, \hd3,
    \h14c, \hd5, \hd6, \hd7, \h172, \h160, \h15a, \h16a, \hdc, \h17b, \h179,
    \hdf, \h12f, \h117, \h101, \h107, \he4, \he5, \h105, \h10d, \h123, \he9,
    \h17e, \h119, \h113, \h137, \h12b, \h13c, \h142, \h146, \h144, \hf3, \h14d,
    \hf5, \hf6, \hf7, \h173, \h161, \h15b, \h16b, \hfc, \h17c, \h17a, \h138>>
KEYBCS2 ==
  <<\h10c, \hfc, \he9, \h10f, \he4, \h10e, \h164, \h10d, \h11b, \h11a, \h139,
    \hcd, \h13e, \h13a, \hc4, \hc1, \hc9, \h17e, \h17d, \hf4, \hf6, \hd3,
    \h16f, \hda, \hfd, \hd6, \hdc, \h160, \h13d, \hdd, \h158, \h165, \he1,
    \hed, \hf3, \hfa, \h148, \h147, \h16e, \hd4, \h161, \h159, \h155, \h154,
    \hbc, \ha7, \hab, \hbb, \h2591, \h2592, \h2593, \h2502, \h2524, \h2561,
    \h2562, \h2556, \h2555, \h2563, \h2551, \h2557, \h255d, \h255c, \h255b,
    \h2510, \h2514, \h2534, \h252c, \h251c, \h2500, \h253c, \h255e, \h255f,
    \h255a, \h2554, \h2569, \h2566, \h2560, \h2550, \h256c, \h2567, \h2568,
    \h2564, \h2565, \h2559, \h2558, \h2552, \h2553, \h256b, \h256a, \h2518,
    \h250c, \h2588, \h2584, \h258c, \h2590, \h2580, \h3b1, \h3b2, \h393, \h3c0,
    \h3a3, \h3c3, \h3bc, \h3c4, \h3a6, \h398, \h3a9, \h3b4, \h221e, \h2205,
    \h3b5, \h2229, \h2261, \hb1, \h2265, \h2264, \h2320, \h2321, \hf7, \h2248,
    \hb0, \hb7, \h2d9, \h221a, \h207f, \hb2, \h25a0, \ha0>>
MACCE ==
  <<\hc4, \h100, \h101, \hc9, \h104, \hd6, \hdc, \he1, \h105, \h10c, \he4,
    \h10d, \h106, \h107, \he9, \h179, \h17a, \h10e, \hed, \h10f, \h112, \h113,
    \h116, \hf3, \h117, \hf4, \hf6, \hf5, \hfa, \h11a, \h11b, \hfc, \h2020,
    \hb0, \h118, \ha3, \ha7, \h2022, \hb6, \hdf, \hae, \ha9, \h2122, \h119,
    \ha8, \h2260, \h123, \h12e, \h12f, \h12a, \h2264, \h2265, \h12b, \h136,
    \h2202, \h2211, \h142, \h13b, \h13c, \h13d, \h13e, \h139, \h13a, \h145,
    \h146, \h143, \hac, \h221a, \h144, \h147, \h2206, \hab, \hbb, \h2026, \ha0,
    \h148, \h150, \hd5, \h151, \h14c, \h2013, \h2014, \h201c, \h201d, \h2018,
    \h2019, \hf7, \h25ca, \h14d, \h154, \h155, \h158, \h2039, \h203a, \h159,
    \h156, \h157, \h160, \h201a, \h201e, \h161, \h15a, \h15b, \hc1, \h164,
    \h165, \hcd, \h17d, \h17e, \h16a, \hd3, \hd4, \h16b, \h16e, \hda>>
  \o Run(\h16f, 5) \o <<\hdd, \hfd, \h137, \h17b, \h141, \h17c, \h122, \h2c7>>
MACCYR ==
  Run(\h410, 32) \o <<\h2020, \hb0, \h490, \ha3, \ha7, \h2022, \hb6, \h406,
    \hae, \ha9, \h2122, \h402, \h452, \h2260, \h403, \h453, \h221e, \hb1,
    \h2264, \h2265, \h456, \hb5, \h491, \h408, \h404, \h454, \h407, \h457,
    \h409, \h459, \h40a, \h45a, \h458, \h405, \hac, \h221a, \h192, \h2248,
    \h2206, \hab, \hbb, \h2026, \ha0, \h40b, \h45b, \h40c, \h45c, \h455,
    \h2013, \h2014, \h201c, \h201d, \h2018, \h2019, \hf7, \h201e, \h40e, \h45e,
    \h40f, \h45f, \h2116, \h401, \h451, \h44f>> \o Run(\h430, 31) \o <<\h20ac>>
ECMA113 ==
  <<\ha0, \h452, \h453, \h451>> \o Run(\h454, 9) \o <<\had, \h45e, \h45f,
    \h2116, \h402, \h403, \h401>> \o Run(\h404, 9) \o <<\ha4, \h40e, \h40f,
    \h44e, \h430, \h431, \h446, \h434, \h435, \h444, \h433, \h445>>
  \o Run(\h438, 8) \o <<\h44f, \h440, \h441, \h442, \h443, \h436, \h432, \h44c,
    \h44b, \h437, \h448, \h44d, \h449, \h447, \h44a, \h42e, \h410, \h411,
    \h426, \h414, \h415, \h424, \h413, \h425>> \o Run(\h418, 8) \o <<\h42f,
    \h420, \h421, \h422, \h423, \h416, \h412, \h42c, \h42b, \h417, \h428,
    \h42d, \h429, \h427, \h42a>>
KOI8CS2 ==
  <<\ha0, NO_CHR, \hb4, NO_CHR, \h7e, NO_CHR, \h2d8, \h2d9, \ha8, NO_CHR,
    \h2da, \hb8, NO_CHR, \h2dd, \h2db, \h2c7, \ha9, \hae, \h250c, \h2510,
    \h2514, \h2518, \h2500, \h2193, \h3a9, \ha7, \h3b1, \h3b3, \h3b5, \h3bc,
    \h3c0, \h3c9, \he0, \he1, \h1ce, \h10d, \h10f, \h11b, \h155, NO_CHR, \hfc,
    \hed, \h16f, \h13a, \h13e, \hf6, \h148, \hf3, \hf4, \he4, \h159, \h161,
    \h165, \hfa, \heb, \he9, \h171, \hfd, \h17e, NO_CHR, NO_CHR, \h151, \h117,
    \hdf, \hc0, \hc1, \h1cd, \h10c, \h10e, \h11a, \h154, NO_CHR, \hdc, \hcd,
    \h16e, \h139, \h13d, \hd6, \h147, \hd3, \hd4, \hc4, \h158, \h160, \h164,
    \hda, \hcb, \hc9, \h170, \hdd, \h17d, NO_CHR, NO_CHR, \h150, \h116,
    NO_CHR>>
KOI8R ==
  <<\h2500, \h2502, \h250c, \h2510, \h2514, \h2518, \h251c, \h2524, \h252c,
    \h2534, \h253c, \h2580, \h2584, \h2588, \h258c, \h2590, \h2591, \h2592,
    \h2593, \h2320, \h25a0, \h2022, \h221a, \h2248, \h2264, \h2265, \ha0,
    \h2321, \hb0, \hb2, \hb7, \hf7, \h2550, \h2551, \h2552, \h451>>
  \o Run(\h2553, 15) \o <<\h401>> \o Run(\h2562, 11) \o <<\ha9, \h44e, \h430,
    \h431, \h446, \h434, \h435, \h444, \h433, \h445>> \o Run(\h438, 8)
  \o <<\h44f, \h440, \h441, \h442, \h443, \h436, \h432, \h44c, \h44b, \h437,
    \h448, \h44d, \h449, \h447, \h44a, \h42e, \h410, \h411, \h426, \h414,
    \h415, \h424, \h413, \h425>> \o Run(\h418, 8) \o <<\h42f, \h420, \h421,
    \h422, \h423, \h416, \h412, \h42c, \h42b, \h417, \h428, \h42d, \h429,
    \h427, \h42a>>
KOI8U ==
  <<\h2500, \h2502, \h250c, \h2510, \h2514, \h2518, \h251c, \h2524, \h252c,
    \h2534, \h253c, \h2580, \h2584, \h2588, \h258c, \h2590, \h2591, \h2592,
    \h2593, \h2320, \h25a0, \h2219, \h221a, \h2248, \h2264, \h2265, \ha0,
    \h2321, \hb0, \hb2, \hb7, \hf7, \h2550, \h2551, \h2552, \h451, \h454,
    \h2554, \h456, \h457>> \o Run(\h2557, 5) \o <<\h491>> \o Run(\h255d, 5)
  \o <<\h401, \h404, \h2563, \h406, \h407>> \o Run(\h2566, 5) \o <<\h490,
    \h256c, \ha9, \h44e, \h430, \h431, \h446, \h434, \h435, \h444, \h433,
    \h445>> \o Run(\h438, 8) \o <<\h44f, \h440, \h441, \h442, \h443, \h436,
    \h432, \h44c, \h44b, \h437, \h448, \h44d, \h449, \h447, \h44a, \h42e,
    \h410, \h411, \h426, \h414, \h415, \h424, \h413, \h425>> \o Run(\h418, 8)
  \o <<\h42f, \h420, \h421, \h422, \h423, \h416, \h412, \h42c, \h42b, \h417,
    \h428, \h42d, \h429, \h427, \h42a>>
KOI8UNI ==
  <<\h2500, \h2502, \h250c, \h2510, \h2514, \h2518, \h251c, \h2524, \h252c,
    \h2534, \h253c, \h2580, \h2584, \h2588, \h258c, \h2590, \h2591, \h2018,
    \h2019, \h201c, \h201d, \h2219, \h2013, \h2014, \ha9, \h2122, \ha0, \hbb,
    \hae, \hab, \hb7, \ha4, \ha0, \h452, \h453, \h451>> \o Run(\h454, 9)
  \o <<\h491, \h45e, \h45f, \h2116, \h402, \h403, \h401>> \o Run(\h404, 9)
  \o <<\h490, \h40e, \h40f, \h44e, \h430, \h431, \h446, \h434, \h435, \h444,
    \h433, \h445>> \o Run(\h438, 8) \o <<\h44f, \h440, \h441, \h442, \h443,
    \h436, \h432, \h44c, \h44b, \h437, \h448, \h44d, \h449, \h447, \h44a,
    \h42e, \h410, \h411, \h426, \h414, \h415, \h424, \h413, \h425>>
  \o Run(\h418, 8) \o <<\h42f, \h420, \h421, \h422, \h423, \h416, \h412, \h42c,
    \h42b, \h417, \h428, \h42d, \h429, \h427, \h42a>>
CORK ==
  <<\h60, \hb4, \h5e, \h7e, \ha8, \h2dd, \h2da, \h2c7, \h2d8, \h9, \ha, \hb8,
    \h2db, \hd, \h2039, \h203a, \h201c, \h201d, \h201e, \hab, \hbb, \h2013,
    \h2014, \h2080, \h131, \h2e, \hfb00, \hfb01, \hfb02, \hfb00, \h69, \hfb00>>
  \o Run(\h20, 95) \o <<\h2010, \h102, \h104, \h106, \h10c, \h10e, \h11a,
    \h118, \h11e, \h139, \h13d, \h141, \h143, \h147, \h14a, \h150, \h154,
    \h158, \h15a, \h160, \h15e, \h164, \h162, \h170, \h16e, \h178, \h179,
    \h17d, \h17b, \h132, \h130, \h111, \ha7, \h103, \h105, \h107, \h10d, \h10f,
    \h11b, \h119, \h11f, \h13a, \h13e, \h142, \h144, \h148, \h14b, \h151,
    \h155, \h159, \h15b, \h161, \h15f, \h165, \h163, \h171, \h16f, \hff, \h17a,
    \h17e, \h17c, \h133, \ha1, \hbf, \ha3>> \o Run(\hc0, 23) \o <<\h152>>
  \o Run(\hd8, 7) \o <<\h53>> \o Run(\he0, 23) \o <<\h153>> \o Run(\hf8, 7)
  \o <<\hdf>>

UNICODE_MAP ==
  [iso88592 |-> ISO88592, iso88594 |-> ISO88594, iso88595 |-> ISO88595,
   iso885913 |-> ISO885913, iso885916 |-> ISO885916, cp1125 |-> CP1125,
   cp1250 |-> CP1250, cp1251 |-> CP1251, cp1257 |-> CP1257, ibm852 |-> IBM852,
   ibm855 |-> IBM855, ibm775 |-> IBM775, ibm866 |-> IBM866, baltic |-> BALTIC,
   keybcs2 |-> KEYBCS2, macce |-> MACCE, maccyr |-> MACCYR,
   ecma113 |-> ECMA113, koi8cs2 |-> KOI8CS2, koi8r |-> KOI8R, koi8u |-> KOI8U,
   koi8uni |-> KOI8UNI, cork |-> CORK]

\* enca_charset_has_ucs2_map()
HasUcs2Map(cs) == cs \in DOMAIN UNICODE_MAP

\* enca_charset_ucs2_map(): bytes below the start of the table are themselves.
UCS2 ==
  [cs \in DOMAIN UNICODE_MAP |->
     Run(0, 256 - Len(UNICODE_MAP[cs])) \o UNICODE_MAP[cs]]
Meaning(cs, b) == UCS2[cs][b + 1]

Repertoire(cs) == ToSet(UCS2[cs]) \ {NO_CHR}

\* enca_charsets_subset_identical()
SubsetIdentical(cs1, cs2, bytes) ==
  \A b \in bytes : \/ Meaning(cs1, b) = Meaning(cs2, b)
                   \/ NO_CHR \in {Meaning(cs1, b), Meaning(cs2, b)}
-----------------------------------------------------------------------------
(* The built-in converter.                                                 *)

\* The Byelorussian-Ukrainian i is the Latin one in ibm866: "extreme brain
\* damage".
LatinI(target) ==
  IF target = "ibm866" THEN \h406 :> 73 @@ \h456 :> 105 ELSE <<>>

\* Deviation: of the bytes that mean a character the last is taken.
TargetByteLast ==
  [cs \in DOMAIN UNICODE_MAP |->
     LatinI(cs) @@ [c \in Repertoire(cs) |->
                      Max({b \in 0 .. 255 : Meaning(cs, b) = c})]]

\* xdata.ucs2_map for each target: the first of the bytes that mean a character.
TargetByte ==
  [cs \in DOMAIN UNICODE_MAP |->
     LatinI(cs) @@ [c \in Repertoire(cs) |->
                      Min({b \in 0 .. 255 : Meaning(cs, b) = c})]]

Identity == [b \in 0 .. 255 |-> b]
NULL == <<>>

\* xtable(): both charsets must have a map and be of the language.
Xtable(lang, from, target) ==
  IF \/ ~HasUcs2Map(from) \/ ~HasUcs2Map(target)
     \/ ~({from, target} \subseteq ToSet(lang.charsets))
  THEN NULL
  ELSE [b \in 0 .. 255 |->
          LET c == Meaning(from, b)
          IN IF c \in DOMAIN TargetByte[target] THEN TargetByte[target][c]
             ELSE b]

\* Charsets with the 8bit flag and without the binary one (lib/encnames.c).
Is8bitText(cs) == HasUcs2Map(cs) \/ cs \in {"utf8", "gbk", "big5"}

\* What convert_builtin() does to each byte, surfaces aside; NULL if it cannot.
BuiltinTable(lang, from, target) ==
  IF from = target \/ (from = "ascii" /\ Is8bitText(target)) THEN Identity
  ELSE Xtable(lang, from, target)
=============================================================================
