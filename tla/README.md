# Models of enca

enca ("Extremely Naive Charset Analyser") guesses the encoding of a text and,
as `enca -x`, converts files or standard input to another encoding. This
directory holds TLA+ models of it, the TLC runs that check them, and TLAPS
proofs. Line numbers are those of this commit; `PROJECT.json` maps every
definition to the lines it stands for.

## 1. Inventory

enca is one sequential process. There are no threads; what is hard is failure
in the middle of a multi-step update of a file, state that survives from one
file to the next, buffers shared by several actors, and one-pass scans over
bytes with saved state.

| Part | State it keeps | Operations | What makes it correct |
|---|---|---|---|
| i/o layer, `src/filebuf.c` | `File` (name, stream, size at opening) and `Buffer` (data, pos); a NULL name is stdin/stdout | open, read, write, seek, truncate, close, temporary, unlink | buffer never overfull, a closed stream is not used |
| `main()`, `process_file()`, `src/enca.c` | persistent buffer, or-ed exit codes | one call per file | the exit code is true of the files |
| driver and built-in converter, `src/convert.c` | converter list, table cache | `convert`, `convert_builtin`, `copy_and_convert`, `add_converter` | first able converter wins, refused stdin is copied, in-place translation is exact |
| iconv converter, `src/convert_iconv.c` | static second buffer | `convert_iconv`, `iconv_one_step` | conversion is complete, malformed input is rolled back |
| librecode converter, `src/convert_recode.c` | static outer, list of cached requests | `convert_recode`, `get_recode_request` | as above; a string is answered with its own request |
| external converter, `src/convert_extern.c` | program name | `convert_external` (vfork, exec, wait) | no temporary file left, nothing lost on refusal |
| guesser, `lib/guess.c` | analyser: buffer, buffer2, counts, bin/up, ratings, order, options, result, errno | `enca_analyse`, `enca_analyse_const`, setters | the caller's buffer, freed copies, counts that belong to the buffer, an answer or a reason |
| multibyte tests, `lib/multibyte.c` | none between calls | UTF-8, UTF-7, UCS-2, UCS-4, TeX, HZ | each scan accepts what it says |
| filters and hooks, `lib/filters.c` | none | box drawing filter, two rating hooks | exact count of what is blanked; the order follows the ratings |
| language modules, `lib/lang_*.c`, `data/` | tables | hooks, the ratings of Chinese | a charset found impossible stays out |
| pairs, `lib/pair.c` | none | one call | every pair is counted for every charset it is good for |
| doubled UTF-8, `lib/utf8_double.c` | weights, a scratch buffer kept between checks | check, candidates | the result depends on this text alone |
| names, `lib/encnames.c` | generated tables | alias search, name and surface parsing | search finds exactly what is there |
| languages, `lib/lang.c` | table | lookup by name | |
| Unicode maps, `lib/unicodemap.c` | tables of 8bit charsets | lookup, comparison of charsets | tables built from them keep the meaning of the text |
| character classes, `lib/ctype.c` | table | `enca_is*` | |
| command line, `src/options.c`, `src/getopt_long.c` | option record, converter list, the permuted words | one call per option | every word is read once and in order, the settings are those asked for |
| locale, `src/locale_detect.c` | codeset | language and native charset from the locale | the charset is that of the language |

How they interact: `process_opt()` reads `ENCAOPT` and the arguments into the
settings, asking the locale for what was not given; `main()` then calls
`process_file()` for each name. It opens the file, reads a sample into the one
persistent buffer, and gives that buffer to the analyser
(`enca_analyse_const()` when converting). `convert()` then tries the converters
in order, each working on the same `File` and `Buffer`; a converter answers
`ERR_OK`, `ERR_CANNOT` (try the next one) or another error (give up). All i/o
goes through `filebuf.c`, whose functions close their file when they fail.

## 2. Modules

| Module | Models |
|---|---|
| `Filebuf` | i/o layer: one operator for each `file_*` function, one more for each way it fails |
| `Convert` | conversion pipeline, `main()` to the four converters, one action per i/o call, iconv'ed character, librecode task or child run |
| `Outcome` | what a run over named files promises, without any of the mechanism |
| `Analyser` | interface and control flow of the guesser over abstract buffers |
| `FilterBinary` | `filter_binary()` exactly |
| `Ctype` | character classes, `memchr()`, counts |
| `SampleScans` | `enca_eol_surface()`, `looks_like_qp()`, the box-drawing filter |
| `WideScans` | UTF-8 (both tests), UCS-2, UCS-4 |
| `MultibyteScans` | UTF-7, HZ, TeX |
| `Ratings` | the sort by ratings, counting of pairs |
| `LanguageTable` | the sixteen languages: charsets, line ends, hooks |
| `UnicodeMaps` | 23 charsets as Unicode characters, comparison of charsets on a set of bytes, the tables `xtable()` builds |
| `Languages` | ratings by weights, the hooks of every language, the winner, ambiguous mode; Chinese |
| `DoubledUtf8` | weights and check for text converted to UTF-8 twice, with the tables of Russian |
| `Names` | squeezed comparison, alias search, names with surfaces |
| `LineReader` | `file_getline()`, by which `locale.alias` is read |
| `RecodeCache` | `get_recode_request()`, a cache sorted while it is searched |
| `Scans` | samples of every kind and what each scan promises of them |
| `Words` | splitting, prefixes, abbreviations of strings |
| `Getopt` | `getopt_long()` with its permutation of the words |
| `Locale` | language and native charset from the locale |
| `CommandLine` | `process_opt()` and the start of `main()`: one step for each option, and for each stage behind the last |
| `MCConvert`, `MCAnalyser`, `MCFilterBinary`, `MCScans`, `MCCommandLine` | values of the constants for TLC |
| `FoldLemmas` | induction, maximum and minimum, folds, loops written as recursive functions, sums over sets |
| `ConvertProofs`, `ContentProofs`, `OutcomeProofs` | theorems about `Convert`, each resting on the one before it |
| `AnalyserProofs`, `FilterBinaryProofs`, `ScanProofs`, `CommandLineProofs` | theorems about the module each is named for, `ScanProofs` about `Scans` |

`Convert` extends `Filebuf` and instantiates `Outcome`; `Scans` extends
`WideScans`, `MultibyteScans`, `Languages`, `DoubledUtf8`, `Names`,
`LineReader` and `RecodeCache`. What `Analyser` chooses freely (which test
succeeds, what a filter blanks) is what `Scans` and `FilterBinary` compute.
`CommandLine` extends `Locale` and `LanguageTable` and instantiates `Getopt`
with its table of options, and `Names` for a claim about its surfaces; where it ends with the outcome "ready", `Convert`
begins: its `setup` (names of files, converters) is what `CommandLine` leaves
in `flist` and `converters`.

### Filebuf and Convert

`obj` is what is outside the process: named files, the temporary file, stdin
and stdout, each as the sequence of its bytes and a stream position. `mem` is
the two buffers, "main" for the persistent one and "iconv" for the static
`buffer_iconv`. `open` is the set of handles whose stream is not NULL. `pc`
names the point of the program, `err` is the `ERR_*` value being returned.
`copy_and_convert()` is a subroutine: its arguments and where it returns to are
in `call`. `todo` is `conv`, the rest of the converter list; `done` collects
what `process_file()` returned for each file.

A byte carries whose it was, its place, its kind and whether it has been
converted, so lost, repeated, moved and twice converted bytes all show.
For the built-in tables every byte has a one byte image. For iconv and
librecode there are characters with a one byte image, a two byte image
(overflows a full output buffer), characters of two bytes (may be split between
two reads) and bytes that are no character. Which converters accept a request
is chosen when the file is analysed. External code is modelled by its use:
`iconv()` stops at E2BIG, EILSEQ and EINVAL as its callers expect; librecode
writes a prefix when it meets malformed input; an external converter converts
well-formed input, or fails having written a prefix of its output or nothing.

`setup.faults`, one of `FaultSets`, says which failures may be injected: fopen,
fread, fwrite (a proper prefix is written), fseek, ftruncate, mkstemp, fdopen,
unlink, fclose, fflush, fork/wait, library initialisation. Any number may occur
in one run. A failed read sets `pos` to -1 as in `file_read_limited()`, and a
later read into that buffer does what the C code does: it puts the first byte
in front of the data (`Filled`), or the program is killed for it
(`IconvReadAborts`).

### Outcome

Files are taken one at a time, each is reported once; one reported as success
is described as converted or already right, one reported as failure is as it
was; the exit code is the worst of the reports; after trouble nothing more is
promised. `Convert!Promise` maps a file to the descriptions that fit its bytes,
and run `named` checks `Promise!Spec`.

### Analyser

A buffer is the set of character classes in it and the kinds of rewriting it
went through. `caller` is what the caller's memory holds, `copy` the
analyser's own, `buffer` and `buffer2` are the pointers, `live` counts copies
not freed, `counts` is what `count_characters()` last saw. Each test of
`make_guess()` is an action in the order of the code whose outcome is chosen
freely where it depends on byte values; which test is run, on which buffer,
after which filter and with which counts is the code's.

### FilterBinary

Loop state as in the C: `i`, `mode`, `xout`, `old`; the buffer holds for each
place the number of its original character, or 0 for the fill character.
`Blanked` says without any of this which places the filter is meant to blank.

### Scans

The scans of the library are functions of a sample, so their modules define
operators, one per C function and one per step of its loop, and no state.
`Scans` makes the samples: `kind` chooses a scan and `text` grows by a token at
a time. In raw samples a token is a byte; in others it is a character of the
text whose encoding is then scanned (`Utf7`, `HzOpen`, `Encoded`, `TexToken`,
`QpToken`, `Utf8Form` are the encoders, written from the formats, not from
enca). Every property compares a one-pass scan with a definition that has
neither pass nor pointer nor saved state.

* A buffer the C code changes in place is a value that is passed on: the box
  filter, the quoted-printable decoder, `shuffle_byte_order()`, `utfbuf`.
* What the code reads but never set is a parameter over all values it may have:
  `escaped` in HZ, the byte behind the sample in HZ and TeX.
* Ratings are integers. Weights per significancy are in thousandths; where a
  hook takes off a fraction, all ratings are multiplied by its denominator.
  `EPSILON` is 0. Logarithms and exponentials are constants in thousandths, for
  a threshold of 1.1 in the multibyte tests and of the default 1.4142 in
  `DoubledUtf8`.
* Tables are those of the program, cut to the bytes the samples use: two
  box-drawing charsets, four bytes of Lithuanian, the letters of Russian.
  Frequencies of Chinese characters are quantified over (`Frequencies`).

The hooks of all languages are in `LanguageTable` as the programs they are: a
sequence of steps, each a set of rows of letters or of line ends, and
`LanguageHook` runs them as the functions in `lib/lang_*.c` do. `UnicodeMaps`
has every table of `lib/unicodemap.c` whole, so what is said of the built-in
converter and of the ambiguous mode is said of every byte and every pair of
charsets of every language.

### CommandLine

`setup` is what the program is started with: its name, the words, `ENCAOPT` and
whether it can be expanded, `POSIXLY_CORRECT`, what the locale system answers,
`DEFAULT_CHARSET`, which programs can be run, and whether stdin is a terminal.
`g` is the state of `getopt_long()`, with the words as permuted so far; `seen`
is the history of what it returned. The other variables are the globals of
`options.c` and `convert.c`. A step is a call of `getopt_long()` with what its
`switch` does for the answer, or one of the decisions behind the loop, in the
order of the code. The properties compare the result with a reading of the same
words from left to right in one go, which moves nothing and stores nothing
(`Reading`), and with what the options before and after say.

## 3. Runs

| Run | Question | Instance | States |
|---|---|---|---|
| `named` | Is what the exit code says true of the files? Is a loss ever silent? Is the original restored? Is `Outcome` implemented? | two files, all internal converters, all faults but fflush and unlink | 980 000 |
| `one_input` | Is stdout ever a mixture? Does success mean the conversion of this input? Is a refused stdin copied? Are temporary files removed, streams open, buffers in bounds? Does every run end? | stdin or one file, every list of converters, three sets of faults, fair | 725 000 |
| `filter_binary` | Does the one-pass filter compute its definition? | all samples up to 8 characters, `Min` = 5 | 84 000 |
| `analyser` | Buffers, counts, answers of two analyses in a row | 8 samples, 3 languages, 4 option sets | 2 300 000 |
| `scans` | Does each scan compute its definition? Do hooks, ambiguous mode and tables keep the text? | every sample of 22 kinds up to its length (1 to 7 tokens), 4 option settings | 434 000 |
| `command_line` | Are the arguments read as they stand, and are the settings those asked for? | about 23 000 command lines of six families, up to four words and `ENCAOPT` | 278 000 |
| `bug_*` | Does the code do what a comment or the manual says? See section 5 | the inputs that show that it does not | |

Bounds. The buffers hold 2 bytes (65536 and BUFSIZ in the program), contents up
to 5 bytes: shorter than a buffer, exactly one, exactly two, and over two, so
that end of file meets a full buffer, a character is split, an image overflows,
malformed bytes come in the first and in a later block. The buffers must hold
one character and one image, hence at least 2 (`FilebufAssumption`). Two files
are enough to see state carried from one to the next: only the buffers, `done`
and the temporary file survive a file. Eight characters hold a block, a run of
five text characters and what stands around it. `MaxCalls` = 2 lets a second
analysis inherit from a first one.

For `scans`, `min_chars` is 2 or 3 (10 in the program), so that samples of five
tokens lie on both sides of it, with and without strict termination. The
alphabets hold each class of byte a scan tells apart and the bytes that could
be mistaken for it: every byte of the escapes, first bytes of pairs that look
like escapes, both halves of each range. A token can stand for up to eight
bytes. Properties of runs of characters (padding of UTF-7, which repeats after
eight digits, that is three units) see more than one period. `HzStrayHarmless`,
a part of `EscapesAreExact`, asks for three characters: below that the answer
really may depend on what `escaped` held. `HooksDecide`, a part of
`LanguagesDecide`, is about a language with more than two charsets; see section
5 for Finnish.

The kinds `letters` (every pair of letters of any hook, all languages),
`ambiguous` (three of the bytes on which the maps differ, all languages, the
whole charset list and each charset with the first) and `builtin` (every byte,
every two charsets of a language) need short samples only, because the rows and
tables are looked at byte by byte; the letters in `hooks` are those of the
language with the most steps and are taken up to six. `lines` has buffers of 3
to 5 bytes and chunks of 1 to 3 (BUFSIZ and 256 in the program), samples of up
to seven: lines shorter than a chunk, of many chunks, and too long. `requests`
has three strings asked for up to seven times.

The families of `command_line` are about one subject each: words, options that
take the next word, `-` and `--` in all orders; abbreviated, ambiguous and
unknown options; types, `-x` and the program's name; names of types;
converters; languages with three locale systems. Words of different families
meet only in the settings the properties relate.

Faults left out of a property, and why. `fflush()` failing is not noticed by
`copy_and_convert()` (`src/convert.c:318`), so a run with it ends with exit
code 0 and missing output; `unlink()` failing is only reported. The set
`LoudFaults` excludes these two; run `named` uses it, and `LoudOnly` asks for
it in `StreamedIsConverted` and `StdoutIsPrefix`. In `InternalRefusalCopies`
the copy itself works: `convert()` drops the value of that copy
(`src/convert.c:160`), so when it fails the exit code is 1 where
`process_file()` gives 2 for the same copy at `src/enca.c:160`. `fflush()`
fails on stdout only: what it leaves behind of a named file is written or
refused by `fclose()`, and that is the fault "close", with exit code 2.

Fairness. `FairSpec` has weak fairness of the whole next-state relation: a
sequential program that waits for nobody takes its next step. `read()` from a
terminal and `waitpid()` on a child that hangs are outside: inputs are finite
and a child ends. No fairness is asked of any single outcome, faults included.

Deadlock checking is off: the program ends, the scan ends, the command line is
read, and after `MaxCalls` nothing may be asked of the analyser.

## 4. Proofs

All proofs are for every value of the constants within the named assumptions.
Most of these (`FilebufAssumption`, `ConvertAssumption`, `FilterAssumption`,
`AnalyserAssumption`, `ScansAssumption`) say that sets are of the right kind
and buffers hold at least one character. Five say more:

* `TokensAssumption`: ratings are numbers, samples given raw (for box drawing
  and UTF-8) and characters of names are bytes, the letters of which alias
  names are made are small letters, and a token of quoted-printable is a byte
  that stands for itself or one of the three escapes of `QpToken`.
  `enca_name_to_charset()` looks for squeezed names in a list sorted by them,
  and the names of one letter that `Scans` searches are such a list.
* `CharactersAssumption`: a token of a text checked for doubled UTF-8 is a byte
  or a character of at most 16 bits, as `Utf8Form` writes no more than three
  bytes.
* `WordsAssumption`: a word has a length, what can be cut out of a word
  (`Parts`: the rest of `-abc`, what follows `=`, what a separator leaves) is a
  word too, and a word is never the NULL pointer.
* `ConvertersAssumption`: no converter is called `none`, the word that empties
  the list (`CONVERTERS`, `src/convert.c:84`).
* `AliasesAssumption`: what `locale.alias` gives for a name is not an alias of
  something else, if it is the name of a locale. The C code looks a name up
  once and libc does the same; files in use map aliases to full locale names.

* `ConvertProofs`. `StreamInv` strengthens `OnlyOpenStreams`: a failure that
  closed a file sets `err` to `ERR_IOFAIL` and goes to one of `ReturnPoints`,
  where no stream is used; at every other point the current file is usable, at
  `TempPoints` the temporary file is open, and `copy_and_convert()` was called
  with one of three pairs of handles (`CallOK`). `TypeCorrect` and
  `StreamsStayOpen` follow. `LinkInv` says at which points the temporary
  file may have a name; it gives `NoTempStays`, for every set of
  faults without "unlink".
  The second half is about bytes. A byte is a function on its four fields, a
  text a sequence of bytes (`Byte`, `Text`; only the proofs need these types).
  `Images` is a recursive function over a sequence; what it does to an end and
  to a concatenation (`ImagesLast`, `ImagesConcat`) follows by induction on the
  length. `BufferInv` says for every stream and buffer that its data are texts,
  that a buffer holds as many bytes as `pos` says (none when it is -1), never
  more than its size, and at which points a position lies within its file. The
  external converter replaces a file behind the back of its stream, so a
  position may be past the end then; whoever writes next has gone to the start.
  `BuffersStayInBounds` follows without any hypothesis. It bounds from above
  only: a position of -1 is allowed, and what it leads to is `bug_stale_buffer`.
* `FoldLemmas`. An induction theorem with an operator as parameter cannot be
  used with these provers, so induction is stated about sets: a set of numbers
  with 0 in it and closed under successor is `Nat` (`Induction`). From it
  follow what a fold over a sequence has after each element (`FoldSteps`,
  `FoldRounds`), that a recursive function whose argument gets smaller by some
  measure exists and satisfies its equation (`RecursionExists`; `RoundsExist`
  for a loop), and the laws of sums over finite sets.
* `ContentProofs`. Two invariants. `PathInv` is how the program got where it
  is: the converter at work is the head of `todo`, a copy returns where its
  caller meant, `err` leaves `ERR_OK` only on the way out, `done` has one
  report per file that is over. `ContentInv` is about the bytes. `FileInv` is
  the file at work, `AheadOK` says that files whose turn is to come are
  untouched, `DoneOK` what is true of those reported. In `copy_and_convert()`
  what was written is a beginning of the source, translated or not, and the
  buffer holds what comes next (`CopyGoing`); translating in place, the file is
  converted up to some position and original behind it, and the buffer holds
  what stands there (`HalfWay`, `Holds`); in the loop of `convert_iconv()` the
  output, what waits in the buffer and the image of what is still to come are
  together the image of the file (`Flow`), which needs `ImagesConcat` at every
  character. While a named file is overwritten the temporary file holds the
  original (`Saved`).
* `OutcomeProofs`. Six theorems from these invariants and `Told` (with which
  `ERR_*` value which file state comes back, and that every converter reported
  is one of the list). `FailuresAreTold`, and from it
  `ExitStatusIsTruthful`; `FilesDoSurvive`;
  `StdoutStaysTruthful`, with the invariant that stdout is a beginning of the
  input, of its translation or of its images (`StdInv`); `StreamIsConverted`;
  and `PipelineKeepsPromise`, the refinement: a step within a file is `Work`,
  the end of a file and an open that fails are `Report`, the end of `main()` is
  `Finish`, opening a file is a stutter.

* `FilterBinaryProofs`. The invariant describes the block being scanned: `Last`
  is the last character in it that was not text, everything after it is text
  and saved in its slot, and no text run of `Min` starts between the binary
  character that opened the block and `Last`. That is what is needed to know
  that the characters restored are the right ones and that the block really
  ended there. `FilterBlanks`, `FilterCounts`, `FilterTypes`.
* `AnalyserProofs`. `StorageInv`: during an analysis there is a copy exactly
  when `buffer` points to it, which is exactly when `buffer2` holds the
  original. `AnswerInv`: as long as tests go on there is neither charset nor
  error, at the end exactly one of them. `ConstIsConst`, `CopiesAreFreed`,
  `ReasonGiven`. `FreshInv`: before the filter nothing but quoted-printable was
  rewritten and only 7bit samples come to the 7bit tests; between filter and
  recount, counts that were not touched are still right exactly if nothing was
  filtered (lemma `FilteredEdits`: filters that change anything leave a trace
  in `edits`). It gives `CountsStayFresh`, and with `AnswerInv` that filtered
  binary data are in the answer from then on (`ToldInv`, `NoiseStaysTold`).
  `DataInv` has the remaining types (`AnalyserTypes`). No bound on the number
  of calls is used.
* `ScanProofs`. `BufferIsRestored`: the four shuffles of `looks_like_ucs4()`
  leave any sample as it was, because each pair of them is a permutation of
  every quadruple that is its own inverse (lemma `Shuffled`). `EolIsSet`: an
  accepted UCS-4 sample never has the end of line type that
  `what_if_it_was_ucs4()` leaves unset when it finds nothing, since that
  happens only with a rating below what acceptance needs (lemma `CountType`).
  `CacheIsAlwaysTruthful`: one call of `get_recode_request()` keeps the entries
  those of the strings asked for so far and the sum of their counts the number
  of calls, and answers with the request of its own string
  (`AnswerStepKeeps`), for any number of strings and calls; the search, which
  exchanges neighbours while it runs, neither loses an entry nor its place
  (`SearchStepKeeps`). `RatingsAreAlwaysExact`: the inner loop of the sort moves
  the least rating of a row to its end and permutes the row (`RowSorts`), the
  outer loop leaves a sorted end that grows (`SortSorts`), and `count_pairs()`
  sets one bit for every charset that likes a pair (`BitsOfCharset`).
  `NamesAreAlwaysFound`: the squeezed comparison stops at the first difference
  of the squeezed names (`SqueezeTold`), and the interval search keeps what it
  looks for between its two ends until they meet (`SearchTold`).
  `Utf8IsAlwaysExact`: as long as nothing failed all was well-formed so far and
  the places that a lead byte announces go on for just as long as `left` says
  (`Utf8Told`); once something failed it stays so. That damage is local is the
  same loop run twice side by side (`SideBySide`): from a 7bit character on
  both runs have the same `left`, and their counts grow alike.
  `BoxdrawIsAlwaysExact`: both loops read the buffer they are changing. In the
  first, no line goes on at the place reached (`LinesTold`), so that a
  line is never seen without its beginning. In the second, a left neighbour that
  the loop has blanked stood before a space, which is no vertical character, so
  that nothing is decided by what was blanked in this loop (`VerticalKept`).
  The count is kept with what differs from the sample (`BlankedFrom`): nothing
  is blanked twice, since no table has the fill character, and this goes on from
  charset to charset.
  `SurfacesAreAlwaysFound`: where there are as many CR's as LF's and each LF
  stands behind a CR, the step from LF to CR is one to one between sets of the
  same size, so that no CR is left alone (`PairedUp`). The counting pass of
  quoted-printable reads what the decoding pass is overwriting; both find the
  same escapes because what is written never reaches what is still to be read
  (`InStep`), which gives the size (`SizeTold`). And at every escape the buffer
  begins with the meaning of the tokens passed and has the code of the others in
  its old place (`PlainAt`), with which every round of the decoder takes a
  special token and the plain ones in front of it (`PlainStep`).
  `LinesAreAlwaysRead`: the smallest number of chunks that `file_getline()`
  reads has the whole line in the buffer, if it has a place there at all
  (`GetLineIs`); between two calls the stream stands where a line starts, all
  lines before that place were read and fit, and a call that hangs is at the
  first that does not (`LinesSoFar`). The lemma (`EveryLineTold`) says all the
  code does, its errors included (`bug_long_line` and a last line, section 5), for
  every size of the buffer and of the chunks; the property claims what is right
  of it, for some sizes.
  `DoubleCheckIsAlwaysExact`: where a token ends, no character is open and the
  buffer holds, for each character with a weight, how often it came, or the mark
  -1, and zero for all others (`CountedSoFar`); the sums over the buffer and over
  the characters with a weight are then the same (`ZerosLeaveTotal`). A check
  never counts what has no weight, whatever the bytes (`CheckKeepsUnweighed`), so
  that `mark_scratch_buffer()` wipes all that an earlier one has left
  (`MarksAlone`).
* `CommandLineProofs`. `Inv` is `TypeOK`, `NativeCharsetFits`, and three more:
  `Shape` ties the program counter to what the globals may be, `Stage` says
  what a stage behind the option loop has established for those after it, and
  `History` ties the settings to the options that have acted so far (`Acted`,
  which leaves out the one just read): the output type is that of the last
  option with a type, or that of the name the program was called by; the target
  is that of the last `-x` or, for `enconv`, the default; the external
  converter is that of the last `-E`. `Scanning` keeps `getopt_long()` and its
  permutation of the words in bounds (`GetoptReturns`). TLC checked `Inv` on
  every state of run `command_line` before it was proved. It gives
  `CommandLineTypes`, `NativeCharsetAlwaysFits`, `TypeIsAlwaysAsked` and
  `ReadyIsAlwaysSane` for any number of words and options.
  `ConvertersAlwaysAsAsked` has an invariant on top, `ListInv`: until the files
  are taken, the list is `SinceNone` of all the names that the options so far
  have given, repetitions included, and `nc` is the number of these names,
  `none` among them; the default list stands in when there was no name
  (`ConvertersAre`), hence without `-C` (`NothingWithoutC`). The property claims
  less: each name once, and nothing when `-C` was given but named nothing, where
  the code and the manual disagree (`bug_options`).
  Adding one list is a fold and reading its names another; they go in step
  (`AddedAre`).

The hypotheses of the theorems in `OutcomeProofs`, each because the code does
otherwise or promises nothing without it:

* no file is named twice (`Distinct`): the second time it may be converted
  again, on top of the first;
* the external converter is the last of the list (`ExternLast`) or not in it
  (`InProcess`): when it fails it may have damaged the file, and a converter
  behind it is given what is left;
* with stdin among the files, no `fflush()` fails (`Orderly`), which
  `copy_and_convert()` would not notice;
* with stdin among the files, `ExitStatusIsTruthful` also asks that librecode
  is not listed, which forgets the failure of its first task
  (`bug_recode_stdin`), and that no read and no write fails, because
  `convert()` drops the result of the copy of a refused stdin (`CopyTold`).
  The second is more than the code needs, and `FailuresAreTold` does without:
  whatever fails, an exit code of 0 or 1 tells the truth about every file, with
  that copy as the only exception (`CopyMayFail`);
* `StreamIsConverted` asks that no trouble was reported (`Clean`), or that
  there is a single file: after trouble the iconv buffer may be stale
  (`bug_stale_buffer`), and later successes need not be true. `StdFirst` in
  `StdoutStaysTruthful` is the same for stdin. `ExitStatusIsTruthful` does not
  need it, since the exit code is 2 then.

Only model-checked:

* `Utf7IsExact`, `EscapesAreExact`, `WideIsExact`, `HooksTellApart`,
  `LanguagesDecide` of `Scans`: each is an equality of a
  scan with a definition, and most of the definitions recurse over the data on
  both sides, often through an encoder.
  Every one would need the invariant of its loop, in the way of `Utf8Told`.
* `BuiltinKeepsText` and `AmbiguousIsHarmless`: statements about the tables of
  `UnicodeMaps`, which TLC evaluates entry by entry.
* `ArgumentsAreRead` of `CommandLine`: an equality with a second, recursive
  reading of all words, which `getopt_long()` meanwhile moves about.
* `Termination`, as fairness is beyond the provers.

All safety properties of the conversion, the analyser and `filter_binary()` are
proved: those of the conversion types, open streams and bounds without any
hypothesis, the others for at least every command line of the runs that check
them.

## 5. Where the code and its documentation disagree

Each of these is a run that must fail, and a counterexample to read.

* `bug_stdin_lost`: when the external converter refuses stdin, all of it has
  been moved to a temporary file that is then deleted; the promised copy to
  stdout is empty.
* `bug_stale_buffer`: a read error in one file leaves the static iconv buffer
  at position -1. The next file is read to one byte before the buffer, loses
  its first byte, and is reported as converted.
* `bug_recode_stdin`: stdin is recoded in two tasks and the failure of the
  first is forgotten when the second succeeds.
* `bug_doubled`: in Russian, the weight of U+0430 in ISO-8859-5 cancels and is
  replaced by 1 (`lib/utf8_double.c:337`), so that the table sums to 1 where
  all others sum to 0. Characters that do not occur count as -1, which is
  harmless for a sum of 0, but rates ISO-8859-5 at -1 for every text without
  Cyrillic letters: French text in UTF-8 is announced as doubly encoded. Going
  through the tables under `data/` by hand shows no other language that has
  this.
* `bug_long_line`: `locale.alias` is read by `file_getline()`, which waits for an
  end of line or the end of the file when the buffer has no room left
  (`src/filebuf.c:243`): a line longer than the buffer is read for ever, while
  "the worst thing that can happen is we return wrong locale name"
  (`src/locale_detect.c:185`). `LinesAreRead` is about the lines before the first
  that does not fit.
* `bug_options`: `enca -Cbogus -x..utf8 -ncstocs` does not do what is said of its
  options. The property is a conjunction of five claims, and in the last state
  of the counterexample each of them is false.
  * `DefaultOnlyWithoutC`: "the default list is used only when you don't specify
    -C at all" (`man/enca.1:260`), but the code counts the converters added
    (`src/options.c:414`), and `-Cbogus` adds none. `ConvertersAsAsked` is about
    command lines without `-C`, and about those whose `-C` name something.
  * `DuplicitiesAreRejected`: "reject duplicities" (`src/convert.c:360`), but the
    check compares an entry of the table of names with the data of another and
    never fires: `add_converter()` takes a converter that is listed, which is
    then tried twice. `ConvertersAsAsked` looks at the first of equal names only
    (`Once`).
  * `DotsMeanNothing`: `-x ..ENC` should mean `-x ENC` (`man/enca.1:201`), but
    `XENC_SEPARATOR_LEN` is `sizeof` of the string, its NUL included
    (`src/options.c:630`): `..ENC` keeps its dots and means no charset, and only
    of `..` alone something is stripped, one byte more than it has.
    `TypeIsAsked` is about targets without dots.
  * `NameIsTheOption`: `--name=cstocs` prints names as `--iconv-name` does, and
    `--name=iconv` as `--cstocs-name`: the two are swapped between the table of
    words and the enumeration (`src/options.c:606`).
  * `SurfacesAreParsed` (of `Names`, for every target with one or two surfaces):
    `enca_name_to_surface()` takes the first entry whose name is *not* the given
    one, and of several surfaces the split finds only one.

Met on the way, without a run, in the command line:

* "latvian" is no alias, and "lativan" means Lithuanian (`ALIASES`); the
  comments of Latvian and Lithuanian in `lib/lang.c:57` are swapped too.
* Locale names with a modifier (`cs_CZ@euro`) are refused
  by `strip_locale_name()`. On a terminal in the C locale the missing language
  is an error before the help that would be printed is looked at. The `:`
  answer of `getopt_long()` is handled and never given. `-` alone is stdin,
  with other names it is a file called `-`.

In tables and helpers:

* Target Cork: ASCII `` ` ``, `^`, `~`, `.` and `i` become the bytes 0x00,
  0x02, 0x03, 0x19 and 0x1e, because `unicode_map_cork` gives accents standing
  alone ASCII meanings and the smallest byte wins, while from ASCII to Cork
  nothing is converted at all. `BuiltinKeepsText` leaves out Cork in its line
  about ASCII.
* The table cache of `xtable()` never works: `xtable_initialized` is never set
  (`src/convert.c:463`).
* The rows of letters in a hook are not of the same letters in every charset
  (`lib/lang_pl.c:124` has 0x8 where 0x8c is meant), which is why
  `HooksTellApart` asks what letters mean and not which place they have.
* Comparing charsets is not transitive where bytes have no meaning
  (`NO_CHR`), so that the ambiguous mode may find one answer for charsets that
  differ; `AmbiguousIsHarmless` is about samples without such bytes.
* `file_getline()` ends a last line without LF one byte late
  (`src/filebuf.c:262`), so that a byte the buffer held before belongs to it.
  `LinesAreRead` says of such a line that it begins with what is in the file.
* `get_recode_request()`: an entry that moves up while the list is sorted is
  the one not looked at. A string just asked for is missed when it is asked for
  again and gets a second entry: after A, B, B, B there are two entries for B.
  What is answered is right all the same (`CacheIsTruthful`).

In the library and the conversion: a dropped `fflush()` result and a dropped
copy result (section 3); `EOL_BIN` reported with interpreted surfaces off when
box-drawing filtering leaves plain ASCII (`lib/guess.c:330` against
`lib/guess.c:895`); "this can happen only with filtering off"
(`lib/guess.c:675`), while the counts handed over at line 321 are those from
before filtering. The answer can have two end of line bits at once, one from
`lib/guess.c:309` or `330` or-ed to another, which
`check_surface_consistency()` (`lib/encnames.c:553`) rejects when a user gives
them. "Sort it with stable sort" (`lib/guess.c:727`): the ratings 1, 1, 2 give
the order 3, 2, 1, though the winner is always the first of the highest
(`OrderIsByRating`). The search for lone LFs starts at the second byte
(`lib/guess.c:691`), so that LF CR is reported as CRLF. A second byte order
mark of the same order is counted as a change of order in UCS-2
(`lib/multibyte.c:446`). A hook may make a rating negative, and with two
charsets, which only Finnish has, the quotient at `lib/guess.c:400` is then
negative and a clear winner is refused.

## 6. Not modelled, and the plan

Not modelled: what lists, help and version print; the look-up of the external
program on the path; `test_garbage()` and the threshold of the pair analysis,
which are floating point and free choices in `Analyser`; the weights, letters
and pairs of languages other than samples of Lithuanian and Russian, as they
are data that the same code runs over; allocation failure (`enca_malloc()`
aborts); the rare failures of `fstat()` and `fileno()`; strings that librecode
does not accept, for which no request is cached.

Of the printing path of `process_file()` only the analysis before it is
modelled. `enca_analyse()` rewrites the buffer and may shorten it, and
`double_utf8_chk()` then gets it with its old length (`src/enca.c:175`):
`Analyser` shows that UTF-8 may be found after quoted-printable was decoded, so
that the check then also sees what stands behind the decoded text. Nothing in
the code or its documents says what it should see.

Plan, most important first:

1. Proofs of the other scans, by loop invariants as in `Utf8Told`: first
   `EscapesAreExact`.
2. `ArgumentsAreRead` from `Scanning` and what `ExchangeRound` does to the words.
3. The printing path: names in six styles, `dwim_libenca_options()`, composed
   with `Analyser` and `DoubledUtf8`.
