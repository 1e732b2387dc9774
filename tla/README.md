# A verification development for the Orn compiler

The Orn compiler is a sequential C program.  At this commit it has a front end (driver, lexer,
parser, diagnostics) and a support library (arena, hash map, string buffer, option parsing, I/O);
the semantic analysis, the ranges and the back end of `docs/` have no source yet.  This directory
holds TLA+ modules of its own logic, TLC configurations that check them on small instances, and
TLAPS proofs of the properties that must hold for every source and every size.

Paths below are relative to the repository; `parser.c 553` is `src/frontend/parser.c` line 553.

- [1. The system](#1-the-system)
- [2. The modules](#2-the-modules)
- [3. The runs](#3-the-runs)
- [4. The proofs](#4-the-proofs)
- [5. Where code and documents disagree](#5-where-code-and-documents-disagree)
- [6. What is not modelled](#6-what-is-not-modelled)
- [7. Plan](#7-plan)

To check: `tlc -config MCLexer.cfg MCLexer`, `tlapm LexerProofs.tla`, and so on for each row of
the tables below.

## 1. The system

```
 orn.c  ──options──> parse-options.c
   │
   └─ compiler.c (source, arena, diagnostics)
         │                    ┌───────── diagnostic.c (diag_list, diag_flush)
         │                    │ diag_emit          ▲ diag_emit
         └─ parser.c ── next_token() ──> lexer.c ──┘
              │  nodes
              ▼
           arena.c         hashmap.c, str-buf.c, wrapper.c, io.c, log.c
```

| component | state | operations | how it interacts | what makes it correct |
|---|---|---|---|---|
| lexer (`lexer.c`) | `start`, `end`, `line`, `col`, the NUL-terminated source | `next_token()` and what it calls | pulled by the parser one token at a time; appends reports to the shared `diag_list` while the parser may be looking ahead | longest match; nothing but blanks and comments is skipped; positions are true; always reaches `TK_EOF`; stays inside the buffer |
| token window (`peek`, `advance`) | `prev`, `current`, `token_queue[4]`, `token_queue_nr` | `peek(n)`, `advance()` | between lexer and parser | it is a cursor on the token stream: none lost, repeated or reordered; four slots suffice |
| parser (`parser.c`) | the window, the C stack, the tree under construction | the `parse_*()` functions | calls the window, emits reports, allocates nodes from the arena | accepts the grammar in its comments; groups by precedence; recovers from errors; never reaches its `BUG()`; terminates |
| AST printer (`print_node`) | none | `parser_print` | walks a finished tree | the dump tells any two trees apart |
| diagnostics (`diagnostic.c`) | array of reports, counters | `diag_emit`, `diag_flush`, `diag_render`, `diag_free` | written by lexer and parser, printed by the driver; keeps pointers into the source | each report's line, column and line start agree with the source; each report is printed once, in order, while what it points to is there |
| driver (`main.c`, `compiler.c`, `orn.c`) | source text, arena, diagnostics, exit status | `compiler_init/load/free`, `orn_cmd_parse` | owns the others' lifetimes | nothing dangles, nothing leaks; the exit status tells errors |
| option parsing (`parse-options.c`) | `argv` cursor, option values | `parse_options` | called by the driver | the options before the first word, and they alone, are obeyed |
| arena (`arena.c`) | list of chunks, `head`, offset, next size | `alloc`, `realloc`, `reset`, `free` | nodes and identifiers live there | live blocks never overlap; a block keeps its contents; all chunks are freed |
| hash map (`hashmap.c`) | buckets, count | `put`, `get`, growth, `free` | not called by other code yet | every entry put can be found, through growth and collisions; chains end |
| string buffer, growing arrays (`str-buf.c`, `wrapper.h`) | `buf`, `len`, `size` | `vaddf`, `addf`, `addstr`, `detach`, `release` | used by reports; the array of the reports grows by the same macro | nothing is written outside the buffer; the text is what was appended |

Nothing here runs concurrently and nothing is persisted.  What is hard in this code is of another
kind, and `PROJECT.json` lists it line by line ("hazards"):

- **Reading ahead.**  A token is lexed when it is first looked at and consumed later.  The lexer's
  reports and the parser's leave in the order in which the code runs, not in the order of the
  source; a decision made on a peeked token is relied on two `advance()` calls later (`BUG()`,
  parser.c 167).
- **Error recovery.**  Every construct may be cut short.  Some error paths consume the offending
  token, some leave it; every loop of every caller must still make progress on whatever is left.
- **Positions.**  `create_token()` and `error_token()` recompute where a lexeme began from where
  the cursor is after it, with line and column saved, restored or counted back on eight paths.
- **Boundaries.**  The lexer steps by one, two and three bytes and `advance()` does not test for
  the terminating NUL; each caller must.
- **Lifetimes.**  Reports point into the source and own their messages; `die()` and `BUG()` end the
  program in the middle of anything.
- **Growth.**  The hash map, the string buffer and the array of the reports move their data when they
  are full; the hash map relinks every entry in place, which turns its chains around.
- **Tables.**  Binding powers, prefix and call powers, and non-associative operators interact in
  one loop.

## 2. The modules

| module | models | how |
|---|---|---|
| `ParserContext` | `peek()`, `advance()` | pure operators on a record `[prev, current, queue, lexed]` (`lexed`: how many tokens were taken from the lexer); a token is its position in the stream, so that "the right token" is an equation |
| `TokenQueue` | the two functions as a machine | one action per function with any legal `n`; variables `p` (the context), `call` and `answer` (the last call and what it returned) |
| `TokenStream` | what the window promises | a plain cursor: `peek(n)` answers cursor + n, `advance()` moves by one |
| `Parser` | all of `parser.c` but printing | see below |
| `ParserInvariant` | what holds of the parser between two steps | a predicate for the window, the reports and the frames of the stack; proved inductive in `ParserProofs` and checked by TLC with the rest |
| `Printer` | `print_node()`, `parser_print()` | the lines of the dump as a function of the tree, and a reader that makes a tree of them again; recursive over the tree, so for TLC only |
| `ParserReference` | what a parser's result should be | the grammar of the comments in `parser.c` as right-hand sides, with derivation of a sentence and of a beginning of one; a tree built by splitting at the loosest operator; source order of nodes |
| `Lexer` | all of `lexer.c` but printing, and what `read_file()` leaves in memory | see below |
| `LexerReference` | what a lexer's result should be | the lexemes of `lexer.c` as sets of byte sequences, beside those of docs/src/grammar.md (section 5); longest match; true line and column by counting newlines |
| `Arena` | all of `arena.c`, with a program that keeps objects in it | see below |
| `HashMap` | all of `hashmap.c` but the value of `strhash()`, with a program that uses it as `hashmap.h` shows | see below |
| `Multimap` | what the hash map promises | a set of entries; a lookup finds one of its key if there is any, the newest since the last rehash if there was one since |
| `Wrapper` | the sizes of `wrapper.h` | `size_t` arithmetic that wraps, `ALLOC_GROW`, `safe_mult` |
| `StrBuf` | all of `str-buf.c` | see below |
| `TextBuilder` | what a string buffer promises | a text that grows and is handed over whole |
| `Diagnostics` | the reports of `diagnostic.c` | pure operators on `struct diag_context` |
| `Driver` | `main.c`, `orn.c`, `compiler.c`, `parse-options.c`, composed with `Diagnostics` | see below |
| `Compilation` | what a run promises its user | reports made, reports printed, exit status |
| `MC*` | instances for TLC | vocabularies, alphabets and shapes of inputs |
| `*Proofs` | theorems | section 4 |

### Parser

The C stack is explicit: `stack` is a sequence of frames, each the name of the point where a
function resumes and the locals it still needs.  `Next` has one action per stretch of code between
two calls that may recurse, named after the function: `Program`, `Stmt`, `StmtEnd`, `Block`,
`BlockStmts`, `ReturnStmt`, `Binding`, `BindingAnn`, `ExprStmt`, `Param`, `FnParams`, `FnBody`, the
five arms of `parse_prefix()` (`Literal`, `Paren`, `GroupEnd`, `Unary`, `NoPrefix`), the parts
of the Pratt loop and calls (`Infix`, `Rhs`, `CallArgs`), `If`, `IfThen`, `IfElse`, `Loop`,
`LoopVar`, `LoopCond`, `LoopBlock`, and `Build` for every function that only returns its node.  An
action performs everything its stretch of C does, with its `peek`, `advance` and `expect_token`
calls composed in program order, reports included.  A frame may stand for a few C frames at once
(`parse_expr()` and `parse_expr_internal()`, `parse_prefix()` and `parse_fn()`).

| code | model |
|---|---|
| `struct parser_context`, `diag_list` | `ctx = [win, diags]` (the token window; the reports in order of emission) |
| C stack | `stack` |
| value a callee returned | a kid of the caller's `node` (`Return`) |
| the rest of the source | `input`, `closed`, `comment` (it ends in an unterminated block comment): a token's type is chosen when a step may read it (`Reveal`), so that one behaviour stands for all inputs with the same prefix |
| a lexical error | `Reported`: the token type `ERROR`, and the `TK_EOF` behind an unterminated block comment, whose error token is dropped (lexer.c 183); the report is made when that token is lexed (`error_token` emits before it returns) |
| `BUG("...")` | the frame label `BUG`, which has no successor; `NoBug` says it is not reached |
| a field `create_node()` leaves unset | `UNINIT` |

Token text, number values and the wording of reports are left out; a report is its kind of emitter
and the token it points at.

### Lexer

`mem` is the memory from the first byte of the source on, `cur` the cursor of `struct lexer_context`
(position, line and column), `start` the cursor at the first byte of the token or comment (the code's
`start`, `start_line` and `start_col`), `mode` the loop the lexer is in, `toks` and `diags` what it produced.  Each action is one turn of a loop or one straight stretch: `SkipBlank`,
`OpenComment`, `LineComment`, `BlockComment`, `Eof`, `Begin`, `Punctuator`, `Word`, `Number`,
`PrefixedDigits`, `Decimal`, `Fraction`, `String`, `Char`, `CharEnd`, `Escape`, `HexDigit`,
`HexDigit2`, `BadEscape`.  Bytes the code treats alike are one value (all blanks but the newline,
all letters without a role of their own, all bytes no token starts with).  A source is revealed byte
by byte by `Reveal`, as in the parser.  The source ends at the first NUL; memory beyond it is not the
program's and holds any bytes.  The lexer does reach it (`StaysInSource`, section 5), and the model
goes on as the code does; the properties of positions hold even then, since they speak of memory.

### Arena

`chunks` is the list of `struct arena_chunk` in the order they were made (size and `next`), `arena`
the struct, `allocated` what `free()` has not got back; `blocks` and `mem` are the program's side: its
live objects and the bytes it wrote.  An address is a pair of a chunk and an offset.  `Alloc`,
`Realloc` (in place or by copying, as `arena_realloc()` decides), `Reset` and `Free` are the
functions; each action includes what the program does at once with the result (it fills the new bytes,
and forgets the old address).  `malloc()` is external: aligned memory, apart from all other.

### HashMap

`table`, `size` and `nr` are the struct, `next` the field of every entry; an entry is a pointer,
`keyOf` and `hashOf` are chosen once and give its key and the key's hash.  `Put` is `hashmap_put()`
without growth; with growth it is `Grow` (up to the loop), `Move` (a turn of the inner loop),
`NextBucket` (of the outer one) and `FinishGrow`.  `Get` is followed by `Pass` for each entry that
does not match and by `Found` or `Missing`.  The loops take a step per turn because a chain that does
not end must be a behaviour that does not: with the guard of `Put` dropped (an entry put twice), TLC
finds a lookup that runs for ever.  `given` and `latest` are the program's memory of what it did;
they guard nothing but `Fresh`, which is the use `hashmap.h` documents (each entry is allocated for one
`put`).  `Free` empties the map; the entries may be put again with whatever their links hold.

### StrBuf

A block of memory is a function from offsets to bytes, and a write outside of it extends it, so that
`TypeOK` (the buffer is exactly `size` bytes) is the absence of overruns.  `Add` is the three
functions that append: they grow the buffer for the text and its NUL and write both.  All sizes
are `size_t`, of which `PtrdiffMax` is the half: an allocation above it fails, as with every C library
at hand, and a failed allocation is `Die`.

### Driver

`pc` is the place in `main()`; `cc` is the `struct compiler_context`, `live` the blocks of memory that
were allocated and not freed, `shown`, `printed` and `status` what the user sees.  `TakeOption` and
`UnknownOption` are turns of `parse_options()`'s loop, `NoInputFile`, `Load` and `CannotLoad` its
ends; `Emit`, `FrontEndDies` and `EndPipeline` are `orn_run_pipeline()`; `Flush` is a turn of
`diag_flush()`; `Summarize` the end of `orn_cmd_parse()`, `Free` that of `main()`.  The lexer and the
parser appear by what they do to the driver's state: any number of reports of any severity (they emit
errors only, at this commit; `diag_emit()` takes all three), or the end of the program.  An argument is
its leading dashes and the rest, since `parse_options()` compares no more than that.

### Abstract specifications

`TokenQueue` implements `TokenStream` under the mapping `pos <- p.current`: a run checks it and
`ImplementsStream` proves it.  `HashMap` implements `Multimap` with its history variables as they
are; every turn of a loop is a stutter, and the growth shows only in the choice of `latest`.
`StrBuf` implements `TextBuilder` with `text` the C string in the buffer.  `Driver` implements
`Compilation`, where the reports are those of the context until they are printed and those printed
after, and a fatal end is told apart from exit status 1, which is the same number.  `ParserReference` and `LexerReference` play the same part for the
functional results: they share no definition with the machines but the names of tokens and bytes.

## 3. The runs

All runs are exhaustive within their bounds.  Deadlock is checked in the parser, the lexer and
the hash map (in the first two the finished program stutters explicitly, so that any other stop is an
error).  The others may stop: `MCTokenQueue`, whose client ends at the bound `MaxTokens`, `MCArena`,
whose program ends with `arena_free()`, and `MCStrBuf` and `MCDriver`, whose programs end or die.

| run | instance | states | shows |
|---|---|---|---|
| `token_window` | `MCTokenQueue.cfg` | 395 | any mix of `peek(0..3)` and `advance()`: the window stays contiguous and within four slots, and implements `TokenStream` |
| `parser_safety` | `MCParser.cfg` | 1.25 M | `NoBug`, `WindowIsSound`, `DepthIsPaid`, `ReportsNearlyInOrder`, `StmtProgress`, `Termination` and the inductive invariant `IInv` on all inputs of up to six tokens over three vocabularies and of up to five over two more; the end of the source may be an unterminated comment; once something was reported, an input grows to four tokens at most (`ErrorTokens`) |
| `parser_reference` | `MCParserReference.cfg` | 3.8 M | the first report comes only where no sentence of the grammar in the comments of `parser.c` begins so, and always before the parser returns on an input that is no sentence (any token may name a later parameter: `doc_param`); nodes in source order; the table of bindings of parser.h 85-92; the tree of an expression is the one the precedence table gives; the dump of every tree, those with error nodes included, can be read back |
| `lexer` | `MCLexer.cfg` | 0.43 M | cursor, tokens and reports point at the source; longest match; nothing but blanks and the lexer's comments is skipped; an error stands only where no token can; `TK_EOF` is reached |
| `arena` | `MCArena.cfg` | 77 k | three objects of sizes 1, 20, 100 in first chunks of 1, 20 or 100 bytes, up to three chunks and one reset: no overlap, no byte changed by another's allocation, no chunk lost unless the arena was reset |
| `hash_map` | `MCHashMap.cfg` | 0.52 M | four entries of two keys with hashes 0, 1, 2, in tables of 1, 2 and 4 buckets: implements `Multimap`, never more entries than buckets, and every call returns |
| `str_buf` | `MCStrBuf.cfg` | 41 k | a `size_t` of 0..15, texts of 0, 1, 3, 6 and 7 bytes, in any order with detach and release: no overrun, the text ends in the buffer, implements `TextBuilder` |
| `driver` | `MCDriver.cfg` | 0.69 M | all command lines of up to three arguments, up to three reports: nothing dangles, nothing leaks, what is printed of the program is exactly what was asked for, implements `Compilation` |
| `doc_*` | `MCParserDocParam.cfg`, `MCLexerDoc*.cfg`, `MCLexerOverrun.cfg` | | counterexamples, section 5 |

**Why the bounds are enough.**  The parser looks one token ahead and its loops carry no counter,
so what can go wrong is decided by the function that is running, the tokens it stops at and the
callers that resume.  Five or six tokens reach every pair of nested constructs cut short at every place; the
sentences of the grammar need more (an `if` with two `else` has eleven), and `MCParserReference`
fixes some of their tokens in shapes of up to thirteen.  `Precedence` tries every sequence of six tokens with
one operator of each level and a prefix, `Calls` every one with calls and parentheses and, behind the
beginning of a call, two more, and `LongInfix` four infix operators in a row, enough for any two
neighbouring levels on both sides of a third.  `AcceptsGrammar` is a property of steps: a report is
judged in the step that makes it, against the tokens read so far, and `ErrorTokens` only limits what
comes after it.  A long sentence that the parser refuses by mistake is found although its rest is never
revealed.  The lexer carries no state
from a token to the next but its position; two to six bytes, depending on the alphabet, hold every
token with its neighbour, comments and escapes with their ends missing, and a newline at every
place.  Comments of stars and slashes are tried up to eight bytes, where an end that the lexer misses
can be followed by one that it sees (section 5).  Keywords are longer, and are tried with their near misses.  In the arena the sizes share a
word, fill the first chunk, fit a second one only, and fit none but their own; three objects are the
last one, a neighbour before it and one in an older chunk, and a reset followed by an overflow is the
only way to drop a chunk.  In the hash map a table of one bucket grows twice under four entries, with
chains of up to four when all hashes collide, and the hashes 0 and 2 part only at the second growth;
entries are interchangeable, so that `SortedInit` fixes which of them have the first key.  In the string
buffer the texts reach the largest object in one, two and three appends, and their sums pass it.  In
the driver with `Slack = 0` the array grows for each report, and three arguments are an option,
another or the same, and what ends them.

**Depth and order.**  `DepthIsPaid` bounds the stack by twice the tokens read plus four, and the
constants are the least that hold: each frame is paid for by a consumed token.  They count frames of the
model, each of which is at most a few of the C stack: the constants are the model's, and what
holds of the code is that its stack is linear in the tokens consumed.  `ReportsNearlyInOrder`
says how far out of source order two reports can be: one token, because an error at the previous
token may be reported after the current one was lexed.  `StmtProgress` is the action property that a
statement, when it returns to its loop, has consumed a token.

**Fairness.**  `FairSpec` adds `WF_vars(Next)`: the program is one thread that never waits, so that
a step that can be taken is taken.  `Termination` is stated under it, and the counterexample of a
mutant is a lasso or an infinite loop of the code itself.  In the hash map only `Run`, a turn of a loop
that was entered, is fair: whether the program makes another call is its own affair.

**Mutants.**  Each property of each passing run is broken by at least one mutant of a definition that
models code, kept next to that definition (`PeekLexesAgain`, `LeftAsRight`, `BlockCommentWithoutEof`
and so on).  They are the bugs these properties guard against: a dropped guard, a missing reset,
an off-by-one in a table, a call out of order.

## 4. The proofs

Assumptions on constants, all in the modules that declare them: `QueueSizeAssumption` (a positive
number), `MaxTokensAssumption` (a natural number), `ShapesAssumption` (a source is a finite
sequence of sets of bytes, or of token types), `WordAssumption` (a positive number), `SizesAssumption` (requests are
positive, as the assert of `arena_alloc()` demands), `EntriesAssumption`, `HashesAssumption` and
`InitSizeAssumption` (finitely many entries, hashes are natural numbers, a table has a bucket),
`PtrdiffMaxAssumption`, `SlackAssumption` and `BoundsAssumption` (natural numbers), `NulAssumption` and
`TextsAssumption` (a text holds no NUL and fits in an object).  Nothing else is assumed: the theorems hold for all sources of all
lengths.

| theorem | says | argument |
|---|---|---|
| `TokenQueueProofs!TypeCorrect` | `TypeOK`, including that `token_queue` never overflows | `IInv`: the context is a window, its queue no longer than `QueueSize` |
| `TokenQueueProofs!WindowAlwaysContiguous` | `WindowIsContiguous` | contiguity is preserved by the lemmas of `ParserContextProofs` on `Peek` and `Advance`: a filled slot is the next token, a shift keeps neighbours |
| `TokenQueueProofs!ImplementsStream` | `StreamSpec` | initial states and steps map by those lemmas; the answer of `peek(n)` is `current + n` because the window is contiguous |
| `ParserProofs!InvariantHolds` | `IInv` for every input | a lemma for each action of `Parser`, and under it one for each part of `IInv` (below) |
| `ParserProofs!ParserTypeCorrect` | `TypeOK` | from `IInv` |
| `ParserProofs!ParserWindowIsSound` | `WindowIsSound` | `Sound(ctx)` is preserved by each of `Emit`, `Advanced`, `Looked` and `Expected`; each action only composes them, and never looks more than one token ahead |
| `ParserProofs!BugIsUnreachable` | `NoBug` | `Foresees`: the operator that made `parse_stmt()` call `parse_binding()` is still the next token when it gets there |
| `ParserProofs!DepthIsAlwaysPaid` | `DepthIsPaid`: depth at most twice the consumed tokens plus four | `Paid` for the last frame of the stack, whose price is at most four |
| `ParserProofs!ReportsAlwaysNearlyInOrder` | `ReportsNearlyInOrder`, for every report of lexer and parser, that of an unterminated comment too | `Ordered`: a new report points at the previous token or the current one, and none before it points past the token looked at |
| `ParserProofs!StatementsProgress` | `StmtProgress`, an action property | `Begun`: a statement at its end has consumed a token or stands before one of the last functions that will |
| `LexerProofs!CursorAlwaysTracked` | `line`, `col` are those of the byte at the cursor | `Tracked(cur, line, col)` is preserved by `Adv`, the only writer |
| `LexerProofs!ReportsAlwaysPointAtSource` | a report's line is true and its column leads back to the start of that line | the point where each error path saved or counts back its column is itself tracked |
| `LexerProofs!TokensAlwaysPointAtSource` | a token on one line carries its true position | in the modes that scan punctuators and numbers no newline lies between `start` and the cursor, which is why counting back from the end is right there |
| `LexerProofs!LexerTypeCorrect` | `TypeOK`: the cursor is never beyond what was read, no token reaches beyond the cursor | `Placed`; `TokenMoves`: every step within a token moves by at most one byte, returns a token that ends at the cursor, or reports one that ends no later |
| `LexerProofs!NothingIsEverSkipped` | `NothingIsSkipped`: tokens in order, only blanks and comments between them | `Skipped`: noise up to the cursor, or up to the token or comment that is open, and an open comment has not met its end (below) |
| `LexerProofs!LongestAlwaysMatches` | `LongestMatch`: each token of a source without reports is a lexeme of its type and no lexeme of any type is longer | `Judged`: what each loop has read is enough to know, whatever follows, what it becomes (below) |
| `LexerProofs!LexemesAreAlmostDocumented` | what `IsLexeme`, by which `LongestMatch` and `ErrorsAreDeserved` judge, has to do with docs/src/grammar.md: it differs in a lone `_` and in capital radix prefixes, and in nothing else | by the type of the lexeme |
| `LexerProofs!ErrorsAlwaysDeserved` | `ErrorsAreDeserved`: no lexeme starts where a `TK_ERROR` token stands, but those refused on purpose | `Judged`: an error is returned only where every continuation is hopeless |
| `ArenaProofs!TypeCorrect` | `TypeOK`: the offset stays in the head | `IInv`; `AllocSound` says what `arena_alloc()` returns and leaves in both of its cases |
| `ArenaProofs!BlocksAlwaysSound` | `BlocksAreSound` | blocks lie apart as intervals (`Apart`), and those of the head below the offset, so that the rounded offset is beyond all of them |
| `ArenaProofs!ContentsAlwaysKept` | `ContentsAreKept` | `Placed`: a block apart from the others leaves their bytes alone; the bytes copied are all of the old block's |
| `ArenaProofs!NothingIsEverLost` | `NothingIsLost` | `Links`: the head and the chunk of every object are on the chain, and until a reset the head is its last chunk, so that linking a new one drops none (below) |
| `HashMapProofs!TypeCorrect` | `TypeOK` | with the loops' locals typed by the call that runs |
| `HashMapProofs!LoadAlwaysBounded` | `LoadIsBounded` | a put without growth has room, one with growth doubles a table that was full |
| `HashMapProofs!ImplementsMultimap` | `MapSpec` | `IInv`: the chains are ordered lists, said without recursion (below); a lookup that has come this far has only non-matching entries behind it |
| `StrBufProofs!TypeCorrect` | `TypeOK`: no overrun, for every width of `size_t` | `GrowLeavesRoom`: growth never shrinks a buffer, though `alloc_needed()` may wrap; `CountsDoNotWrap` |
| `StrBufProofs!AlwaysEndsInBuffer` | `EndsInBuffer` | the room asked for includes the NUL |
| `StrBufProofs!ImplementsBuilder` | `BuilderSpec` | the first NUL of a buffer is at `len`, so that the C string is the text |
| `DriverProofs!TypeCorrect` | `TypeOK`: the array has room for all reports | `GrowLeavesRoom` again |
| `DriverProofs!NothingEverDangles` | `NothingDangles` | messages are numbered by the report they were made for |
| `DriverProofs!NothingEverLeaks` | `NothingLeaks` | `live` is exactly what the context owns, at each `pc` |
| `DriverProofs!CommandIsAlwaysObeyed` | `CommandIsObeyed`: the tokens are printed if they are asked for, else the tree if it is, else nothing | `Arguments`: the flags are set exactly by the options seen, which takes a step per turn of the loop; `ShownIsChosen`: what was printed is what the flags say (`FlagsTell`) |
| `DriverProofs!ImplementsCompilation` | `CompilationSpec` | what is printed is a prefix of what was reported, and all of it when the status is set |

The arena's `IInv` adds to the properties that the blocks of the head end at or below the offset:
without it nothing keeps `arena_alloc()` from returning a used byte, and shrinking in place, which
lowers the offset, from uncovering a neighbour (`InPlaceSound`).

Which chunks `arena_free()` finds is a recursive function of the list, and no induction theorem can be
used here.  `Reached` says the same as an intersection of all sets that are closed under `next`;
it solves the recursion's equation, and so the function is defined and equal to it: a chunk where they
differed would be a greatest one (`Greatest`), since a chunk is only linked to later ones (`Forward`),
and its successor would differ too.  `ReachedExtended` gives the chain after an overflow: what came up to
the head, and the new chunk.  Before a reset the head is the last, so that nothing is cut off; after one it
may not be, and then only chunks behind all live objects are dropped, which is what `NothingIsLost`
allows and the hazard at arena.c 55 describes.

The chains of the hash map are lists of pointers, and "is in the chain of" is a recursive notion that
the prover cannot unfold.  `Chains` says the same of each link alone, with a height for every entry (how
many entries come after it): an entry without a link has height 0, any other is one above the next;
no two entries of a bucket share a height; none is above the first.  The lemmas `Push` and `Pop`
show that linking an entry in and taking the first one out preserve it for some heights, and `IInv`
holds the old table's rest, the new table and the two loops together.  That a key's newest entry is
found first is then a comparison of heights, and the reversal of a chain by growth is allowed because
`latest` is forgotten at that put.

The driver's `IInv` is `TypeOK` with three parts: `Numbered` (reports and messages correspond, the
counter of errors is positive exactly if there is one), `Memory` (the live blocks are those the context
points to, until all are freed) and `Printing` (what is printed is a prefix of what was reported).  The
string buffer's adds to its properties that no byte before `len` is a NUL.

The lexer's inductive invariant `IInv` is needed because none of the three properties is inductive
by itself: a report's column is computed from `start` and the saved locals, so that those have to be
tracked too, and `create_token()`'s subtraction is right only in the modes whose lexemes stay on a
line.  `PunctuatorsHaveNoNewline` gives that for the punctuators, from the table itself.

For `NothingIsSkipped` the recursive `IsNoise` is replaced in the same way, by a set of places where the
noise may be cut into blanks and comments (`Skips`).  It needs no recursion, it grows as the lexer moves
(`SkipsMore`), it is kept when a byte is revealed (`SkipsAppend`), and it implies `IsNoise`
(`SkipsIsNoise`).  The invariant `Skipped` has to say of an open block comment what the loop of
`try_ignore_comments()` has seen: every end before the cursor comes after another star of the comment, and so
does a star just before the cursor.

The properties of the lexemes speak of every text that could have been read instead, and memory is
revealed byte by byte.  `Judged` therefore holds its verdicts for every memory that extends the one
revealed (`Extends`): a token is right (`RightAt`) or an error deserved (`HopelessAt`) whatever follows,
which a `Reveal` cannot change (`VerdictStays`, `ReadingStays`).  `Reading` says for each mode what its
loop has read between `start` and the cursor: a run of name bytes, a known punctuator, digits of the
radix, digits and a point that no second one follows, the units of a literal.  From there a lemma for each
step shows that the mode reads on, or that the token is right (`WordIsRight`, `RadixIsRight`,
`DecimalIsRight`, `FractionIsRight`, `PunctuatorIsRight`, `StringIsRight`, `CharIsRight`), or that it is
hopeless (`RadixIsHopeless`, `ByteIsHopeless`, `SignsAreHopeless`, `EscapeIsHopeless`, `LiteralIsHopeless`,
`CharIsHopeless`).  `LexemesAt` says which lexemes can begin with a byte, and `PunctuatorAt` that
only `...` has three bytes, so that a punctuator which cannot be continued by one byte cannot be by two.
TLC cannot evaluate `Judged`, which speaks of all memories; it checks the two properties.

The literals are the hard case.  `\x4` and `\x41` are both escapes, so that a string can be cut into
units in several ways, and `check_valid_escape()` takes the longer one without going back.  `Greedy` is
the unit it takes, `GreedyOnly` says that any other at that place differs by a hex digit, and `AheadStep`
that such a cut comes to the same places one unit later, since that digit is a unit of its own
in a string.  A character literal holds exactly one unit, and there the digit left over is not its quote.
The recursive `IsUnits` becomes a set of cuts (`Units`, `InsideUnits`), as `IsNoise` does above.

`StaysInSource` is a hypothesis of both properties and not of the proof's making: the lexer steps over
the terminating NUL in three places (`doc_sanitizers`), and what it reads from there on is no source.

The parser's `IInv` (module `ParserInvariant`) is about the whole C stack, because what a function may
rely on when it resumes was established by its callers.  `Frames` says that every frame but the running
one stands at a place where a callee was called.  `Foresees` is what the running function may assume of
the tokens ahead, and where a token may have been looked at already: only behind an identifier, in
six places.  `Paid` makes the bound on the depth inductive: the stack from a frame at label `l` down
has at most `2n + Price(l, t)` frames, `n` being the tokens consumed and `t` the current one.
The price is lower where more has been consumed, and higher by one on the error paths, which stay at a
`;` or the end of the file and call without consuming.  The frames that `Pending` names are paid
for only later, by the expression above them: an `if`, a `loop` or a function whose expression has
not begun, a parameter list whose first name is still ahead.  `Begun` says of every `parse_stmt()` on the stack that it has
consumed a token, or that the functions above it (at most three: `Early` lists them) are on a path
that consumes one.  `Known` keeps the tokens already read from being chosen again by `Reveal`.

**Only model-checked:** termination (liveness is out of the prover's reach); the language, the
grouping and the bindings of the parser and the dump (`AcceptsGrammar`, `GroupsByPrecedence`,
`SourceOrder`, `BindingForms`, `DumpIsFaithful`: they are about trees, by RECURSIVE operators).

## 5. Where code and documents disagree

| run | the text | the code |
|---|---|---|
| `doc_param` | parser.c 232 and docs/src/grammar.md 33, `param = ID ":" expr` | parser.c 237 takes any token for the name of a parameter after a comma; the grammar of `AcceptsGrammar` has all tokens for names there (`GrammarOfParser`), `AcceptsOnlyDocumented` has the text's |
| `doc_block_comment` | tests/t0001-lexer.sh 160, block comments are skipped | lexer.c 179-181 consumes the byte after a `*` without looking at it again: `/* **/` is unterminated, and `/***/ x */` is one comment to the lexer; `NothingIsSkipped` therefore speaks of the lexer's comments (`IsPassed`), `CommentsAreSkipped` of those of the text (`IsComment`) |
| `doc_token_position` | tests/t0001-lexer.sh 97, a token is listed at its first byte | lexer.c 126 subtracts the length from the final column: wrong for a literal with a newline, whose column may be negative |
| `doc_sanitizers` | .github/workflows/ci.yml 23, the tests are run with `-fsanitize=address,undefined` | lexer.c 181, 340/350 and 400 step over the NUL of a truncated comment, escape or character |

More need no run of their own, since the references that the passing runs confirm say what the code
does.  Three are of the grammar (`Grammar` in `ParserReference`): docs/src/grammar.md 14 says
`loop ID in expr`, and parser.c 504 expects `ID ":"`, as its own comment says, and reports `in` (rule
`var`); the same line has no loop without an expression, and parser.c 510 takes one, as its
comment says too (rule `loop`); docs/src/grammar.md 31 makes the return range of a function
optional, and `parse_fn()` (parser.c 260) always parses one (rule `fn`).  Three are of the lexemes:
docs/src/grammar.md 126-128 have the prefixes `0x`, `0o` and `0b`, and lexer.c takes `0X`, `0O` and
`0B` as well; docs/src/grammar.md 129 makes a lone `_` an `ID`, and lexer.c returns `TK_UNDERSCORE`
for it (these two are the only differences, theorem `LexemesAreAlmostDocumented`); and
docs/src/grammar.md 133 reserves `import`, which the lexer does not know and returns as an `ID`.

## 6. What is not modelled

* `lexer_dump_tokens()` and `diag_render()`: formatting.  What rendering needs of a location is that the
  column leads back to the beginning of the line.  For the lexer's reports that is
  `ReportsPointAtSource`, always.  The parser's take the position of a token, which is shown for tokens
  on a single line only (`TokensPointAtSource`): a report at a string literal with a newline in it is
  rendered from the wrong line start, as `doc_token_position` shows of its position.  That the source is
  still there is `NothingDangles`.
* The source behind its NUL, in the parser: `Parser` takes the token streams of a lexer that stays in
  the source (`doc_sanitizers` shows when it does not).
* The chunks that an overflow after `arena_reset()` drops: the code leaks them, and `NothingIsLost`
  exempts them.  Nothing calls `arena_reset()` at this commit.
* That reports are lost when the program dies: `Compilation` permits a fatal end at any point, with
  whatever was reported by then not printed, as `die()` and `BUG()` have it.
* `strhash()`: any function of the key to `Hashes`.  A bucket is an `unsigned int` (hashmap.c 31)
  and the table's size a `size_t`; a table of 2^32 buckets, where they would part, needs as many entries.
* `xstrtoll()` and `xstrtod()`: not called at this commit; they convert a copied text and end the
  program if it is no number.
* The result of `vsnprintf()` beyond "any text": its length is an `int`, and `n + 1` (str-buf.c 23)
  would overflow for a message of 2 GB.
* The file system: `read_file()` either leaves a source in memory or ends the program.  A short `fread()`
  or an embedded NUL makes the source a prefix of the file, and every prefix is a source of its own in
  the lexer's runs.
* Node allocation in the parser: `create_node()` takes memory from the arena, which either succeeds
  or ends the program (`xmalloc`); `Arena` models the arena by itself.
* Sizes that wrap in `arena_alloc()`: the callers' sizes are those of nodes and arrays in memory.
* Number and identifier text; overflow of the `int` line and column on sources of 2 GB.
* Bytes above 127, for which `isalnum()` on a negative `char` is undefined, are taken as bytes no
  token starts with.
* The components marked `not_modelled` in `PROJECT.json`: they have no source at this commit.

## 7. Plan

Done: the token window, the parser and its printer, the lexer, the arena, the hash map, the string
buffer and growing arrays, reports and driver, each with its runs and, where the prover reaches, its
proofs.  What would come next:

1. `Driver` over the reports of the real `Lexer` and `Parser` instead of any reports; what is shown
   of `Driver` holds for them as a special case.
2. The semantic analysis, when it has source: it will use the hash map and the string buffer.
