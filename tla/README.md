# c-hcl2 in TLA+

A model-checked and partly proved specification of [c-hcl2](../src), a C
implementation of the HCL2 configuration language: lexer, Pratt parser,
tree-walking evaluator with unknown values, one-pass template renderer, body
parser with error recovery, JSON profile and about a hundred builtin functions.

The library is sequential: no threads, no callbacks that outlive a call, no
persistence. What makes it hard is elsewhere: recursive functions that share
mutable state (one variable table, one cursor, one error buffer, one `active`
flag) and must leave it as they found it on every path, including the ones on
which an allocation fails; recovery after syntax errors; and answers given
while values are unknown. The models are about these.

## 1. Inventory

| Part | Source | State it keeps | Operations | Models |
|---|---|---|---|---|
| Context table | `value.c:237-326` | array of name/value pairs, array of functions | set, take, look up | `HclContext` |
| Loop scopes | `eval.c:645-786`, `251-408` | saved bindings on the C stack | take, bind, evaluate, restore, on every exit | `LoopScope`, abstractly `LexicalScope` |
| Bodies, diagnostics | `body.c` | token, error buffer, diagnostics list, body under construction | `hcl2_parse`, `hcl2_parse_diags`, `resync` | `BodyParser` |
| Lexer | `lexer.c` | cursor, token, text, first error | `lex`, `lx_err` | `Lexer`, declaratively `LexerMeaning`; the pushed-back token in `BodyParser` |
| Expression parser | `parser.c` | C stack, nodes under construction | `parse_expr` ... `parse_for` | `ExprParser`, declaratively `ExprGrammar` |
| Templates | `eval.c:61-575` | cursor, output buffer, `active`, `unk`, `fail` | `trender`, `handle_if`, `handle_for` | `Template`, declaratively `Meaning` in `MCTemplate` |
| Evaluator, unknowns | `eval.c:577-1068` | the context | `hcl2_eval_node`, `eval_for`, `eval_try`, `eval_can`, calls | `Evaluator` |
| Values | `value.c:1-236` | value trees | constructors, `hcl2_object_set`, `vequal`, `vclone` | `Values` |
| Types, conversion | `convert.c` | none | `hcl2_convert` | `Collections` |
| Collection builtins | `builtin/set*.c`, `merge.c` and others | none | pure functions of their arguments | `Collections`; `sort`, `transpose` in `Texts` |
| JSON values | `json.c`, `json_emit` in `builtin/util.c` | cursor | recursive descent, writer | `JsonText` |
| YAML, CSV | `builtin/yaml*.c`, `csvdecode.c` | cursor in lines and characters, anchors | four passes, writer; quoting machine | `Yaml`, `Texts` |
| Texts and `format` | `builtin/format.c`, `substr.c`, `trim*.c` and others | cursor in the format | pure functions | `Strings`, `Texts` |
| Network addresses | `builtin/ip.c`, `cidr*.c` | cursor of `cidrsubnets` | bits, and the texts of prefixes | `Addresses`, `Subnets` |
| Dates | `builtin/timefmt.c`, `timeadd.c`, `timecmp.c`, `formatdate.c` | none | civil calendar, scanners, writer | `Calendar`, `Dates` |
| Files, paths, base64 | `builtin/fsutil.c`, `file*.c`, `*path*.c`, `crypto.c` | the host's disk | `clean_path`, `glob_match`, walk, `utf8_valid` | `Paths`, `Bytes` |
| Dispatch of builtins | `builtin/registry.c` | none | by name | `Library` |
| JSON bodies | `json_body.c` | body under construction, borrowed labels | `decode_body`, `decode_blocks`, `make_block` | `JsonBody`, declaratively `JsonMeaning` |
| Regular expressions | `builtin/regex_engine.c`, `regexall.c`, `replace.c` | program, captures, step budget, end of the last match | compile, match, match again behind the match | `RegexCompiler`, `RegexMachine`, declaratively `RegexMeaning` |

How they interact. `hcl2_eval` and `hcl2_parse` run the lexer under the
expression parser; `hcl2_parse` stores unevaluated nodes that
`hcl2_body_attr_value` evaluates later. The evaluator reads and, for loop
variables, writes the context it was given; when it meets a string it calls the
template renderer, which re-parses the text of every `${ }` and calls the
evaluator back with the same context. Errors travel as NULL plus the first
message left in the caller's buffer; `try` and `can` catch them. Unknown values
travel as values of their own kind. The lexer and the renderer read the same
quoted string with two different scanners, and have to agree on where its markers
are. The builtins meet only as functions applied to each other's results: a
decoder reads what an encoder wrote.

What is hard, and which part of this project is about it:

* *restoring shared state over recursion*: `LoopScope` (variable table),
  `Template` (`active`, cursor);
* *one step of several failing*: allocation failures in `LoopScope`,
  `BodyParser`, `ExprParser`, `JsonBody`;
* *progress and recovery*: `BodyParser`, and the rewinding cursor of `Template`;
* *stale state*: the error buffer in `BodyParser`; answers given before a value
  was known in `Evaluator`;
* *precedence, longest match, error exits of a recursive-descent parser*:
  `ExprParser`;
* *relocating code, and undoing what a failed branch did*: `RegexCompiler`,
  `RegexMachine`;
* *two readers of one text*: `Lexer` and the renderer; the encoders and decoders
  of `JsonText`, `Yaml`, `Bytes`;
* *off by one at an edge*: carries over the end of a prefix, months and eras,
  offsets outside of a text, overlapping separators, half of a character.

What makes each part correct:

* loop scopes - a body sees its own variables over the enclosing scope; every
  exit restores exactly what was hidden; every value has one owner;
* bodies - the strict and the diagnosing parser agree; the strict one accepts
  the grammar; diagnostics are complete and ordered; recovery loses nothing
  that was parsed, keeps braces paired and terminates;
* tokens - the longest lexeme of the grammar at every place and an error where
  there is none; a string ends where the renderer's markers let it end; the lexer
  gets to the end of every text, errors or not;
* expressions - the tree is the only derivation of the tokens; nodes are freed
  exactly once on every path; a span ends with the last token;
* templates - the output is what the nesting of directives means; what is
  switched off leaves no trace; the renderer terminates;
* evaluation - no answer is taken back when unknowns become known; nothing
  known turns unknown; object comprehensions mean what their source says;
* regular expressions - the program finds what the pattern means; captures
  belong to one attempt; matches follow one another and text between them is
  kept; the search ends;
* codecs - a decoder gives back what was written, however it was written, and
  rejects what was written for nothing;
* addresses - blocks are aligned, do not overlap, and each is the first that is
  free; dates - days are counted one by one; texts - what the arguments say place
  by place, at the edges too;
* conversion and collection builtins - set functions, products and merges are what
  they are on sets; unknown elements stay where their values belong;
* JSON bodies - a document is decoded exactly when it fits the schema, to all of
  what it means; the shared label buffer holds the path of the block being made;
  an error frees what was built once.

The hazards are listed with their lines in `PROJECT.json`.

## 2. Modules and how they correspond to the code

**HclContext** is the variable table of `value.c`. `SetVar` replaces in place or
appends, `TakeVar` removes by shifting, `Lookup` returns the first hit. A value
tree is one *cell*, since the table moves the ownership of trees around.

**LoopScope** composes the table with the protocol of `eval_for`. `frames` is the
C stack, one frame per loop with the locals `saved_v`, `saved_k`, `vval`, `kval`
and the program point; `heap` and `freed`-style bookkeeping say which cells are
allocated. There is one action per statement that touches shared state:
`EnterLoop` (both takes), `BindValueOnly`, `BindValueAndKey`, `BindFails`,
`KeyBindFails`, `BodyDone`, `BodyFails`, `LoopEnds`, `RestoreVal`, `RestoreKey`,
`LeaveLoop`, and the caller's own calls between evaluations. The table starts
empty and the caller fills it with `CallerBinds`. A body may start any number of
nested loops, succeed or fail, and go on after a failed loop as `try` does.
`handle_for` repeats the protocol line by line and is not modelled twice.
**LexicalScope** is the abstract promise: a loop hides its names and puts them
back; `LoopScope` is shown to implement it (`LexicallyScoped`).

**BodyParser** is `body.c` with its part of the lexer. `calls` is the C stack,
`pos` the current token, `err` the error buffer with its first-message rule,
`diags` the list. One behaviour parses one document twice, strictly and then for
diagnostics. `ItemFails` and `StrayBrace`, `NotAName` are the points where
`parse_body` records and calls `resync` (`Resync`, `SkipToken`). Expressions are
names, numbers and objects: objects because their braces and line breaks are
what recovery can trip over.

**Lexer** is `lexer.c` on characters. A call of `lex` picks its scanner by the
first character after the gap (`Call`, `Gap`); symbols, numbers, identifiers and comments
are found in one step each, since nothing happens between their characters. The
quoted string takes one step per character, with the depth of braces and the
nested-string flag of the code, the heredoc one step per line until its
delimiter, then one that takes the margin away. `marks` and `tokens` are histories: the
markers met inside the string, and what was returned. The caller goes on after an
error, as the body parser does. **LexerMeaning** is the reference: lexemes as sets of
words, the longest one at each place; and the renderer's reading of a string, whose
braces must be those the lexer counted.

**ExprParser** is `parser.c`. `calls` is the C stack; frames carry the minimal
binding power and, in `own`, the cells that the function's locals own. The heap
lists every node and string ever allocated, `freed` the ones given back. Tokens
that C functions look at in one go are looked at in one action, e.g. the header
of a for. `parse_unary` without an operator and `parse_postfix` before its
primary has returned have no frame: they hold nothing yet. The two walks over a
traversal, in `parse_postfix` and `build_splat`, share their actions; they
differ in what is stamped and owned. `Unwind` is the NULL check behind every
call. The end of the module describes the shape of the state: which function may stand
above which in `calls` and how many cells each holds where (`StackOK`, `FrameOK`), and what
a node binds as an operand (`Binds`); `paren`, that a node was put in parentheses, is a
history variable for it. **ExprGrammar** is the reference: the set of trees that derive a token
sequence by GRAMMAR.md sections 2 and 3, with precedence as a condition on
trees. It differs from GRAMMAR.md in one place, where the code and README.md
agree against it: chained splats are accepted and nest.

**Template** is the renderer of `eval.c`. A template is a sequence of pieces:
characters (escapes for one included), spaces, and whole markers with what their
expression will evaluate to and with their strip marks. Two kinds of piece are
malformed: a marker that cannot be read or has no end, and a `\u` or `\U` without its
digits; the renderer fails at either, in a branch that is not taken too. `frames` are the activations of `handle_if` and
`handle_for` with their saved `active`; `p` is the cursor that `NextElement`
moves back. `Meaning` in **MCTemplate** is the reference: a recursive definition over
the structure, without cursor or flag.

**Values** and **Evaluator** are the value model and `hcl2_eval_node`, one
recursive operator per kind of node. The state machine around it is a planning
session: `Evaluate` evaluates the chosen expression in the current context,
`Learn` replaces an unknown of the context by a value of its type through
`hcl2_ctx_set_var`, as often as there are unknowns. Numbers are integers; `/` is left
out, since no property depends on it. A function registered by the caller is one
more builtin.

**Library** is the dispatch: the builtins by name, on flat argument lists, each with
its early errors in the code's order.

* **Collections** - `hcl2_convert` and the builtins on collections and types, with
  elements compared by `VEqual`. `SetProduct` keeps the code's odometer and its limit
  (`MaxElements`). Texts that are numbers are those of the integers from -9 to 99.
  `<<"convert", type, e>>` is what a host program does with a result.
* **Strings** - texts, which are TLA+ strings here; characters without a TLA+ notation
  have stand-ins (`@` for NUL, `^` for a control character, `_` for a backspace, a
  number in angle brackets for a byte above 127).
* **JsonText** - the recursive descent of `json.c` and `json_emit`.
* **Yaml** - the passes of `yamldecode.c` one after the other, as in the code: block
  scalars become quoted ones, the text becomes lines without comments, lines become
  documents, a document is read by recursive descent, in block style over lines and in
  flow style over characters; anchors, tags, merge keys; and `yamlencode`.
* **Texts** - the builtins on texts, `format` with its flags, widths and explicit
  indices, `csvdecode` with its quoting machine, `sort`, `transpose`.
* **Addresses**, **Subnets** - an address is the sequence of its bits; `Mask` and
  `IncAt` are `ip_mask` and `ip_inc_at`, `Allocated` is the cursor of `cidrsubnets`.
  Subnets adds the texts of both families, with the `::` of IPv6.
* **Calendar**, **Dates** - the civil calendar with its years that begin in March, and
  the scanners of timestamps, durations and formats. A moment is a day and a second of
  the day, since the code's one count of seconds does not fit TLC's integers.
* **Paths**, **Bytes** - `clean_path`, `glob_match` and the walk of `fileset`; base64
  and the UTF-8 check of `file`. What is on disk (`Files`), the home and the working
  directory are constants: they are the host's.

**TextMeaning** is the reference for all of these: a decoder is described by the ways
its values can be written (`YamlText` in styles, `CsvText` with or without quotes, the
tree of a list of JSON tokens), an allocation by intervals of numbers, a date by
counting days month by month, a pattern by the set of places it can end at, `format`
by what each directive shows.

**RegexProgram** is the instruction set and what the compiler promises the machine:
`WellFormed`, targets and slots lie where they must; `Bracketed`, every path through the
program saves the beginning of a group before its end and does not leave a group half
done (`Inside` says at which instructions each group is open). **RegexCompiler** is `hre_compile`: the recursive descent of
`parse_alt`, `parse_concat`, `parse_repeat`, `parse_atom` over a pattern of tokens,
with the code motion of `apply_quant` and the copies of `{n,m}` as the code does
them. CHAR, ANY and CLASS are one instruction, a set of characters.
**RegexMachine** is `vm`, `hre_match` and the loops of `regexall()` and `replace()`:
one action per instruction, `stack` for the activations of `vm` that wait for a
branch or for a capture to undo, `steps` for the budget. **RegexMeaning** is the
reference: the tree of a pattern read off its balanced groups, and its matches in
the order Perl and Go prefer them, without program or machine.

**JsonBody** is the decoder of `json_body.c` on parsed JSON values. `calls` is the C
stack: a `body` frame owns the body under construction and the label buffer, the
`blocks` frames above it write borrowed keys into that buffer and add blocks to that
body, a `block` frame owns a block while its body is decoded. A cell stands for a
struct with its strings and arrays, `live` is what is allocated, and every
allocation may fail. Numbers, booleans and null are one kind of value. A body carries
`held`, the set of cells that `hcl2_body_free` gives back, beside its attributes and
blocks: the walk over the tree is recursive, and a module with recursive operators
cannot be proved about. That `held` is the tree, each of its cells once, is checked
for every body at every step (`HeldIsTree`, a part of `DecodesWhatFits`).
**JsonMeaning** is the reference: when a value fits a schema, and the attributes and
blocks it then stands for.

**MC...** modules hold the finite instances. **BasicLemmas**, **LoopScope_proofs**,
**Template_proofs**, **BodyParser_proofs**, **JsonBody_proofs**,
**ExprParser_proofs**, **RegexMachine_proofs**, **Builtins_proofs** hold theorems.
Operators named in comments as `Mutant:` are deliberately wrong variants of the
definition next to them: replacing that definition by the variant must break the
property it is paired with in `PROJECT.json`, and shows that the property can
fail.

## 3. Runs

| Run | Instance | Shows |
|---|---|---|
| `loop_scope` | 2 names, 6 cells, loops nested 2 deep over up to 2 elements, every allocation may fail | `BodyScope`, `ScopeRestored`, `OwnedOnce`, and the refinement `LexicallyScoped` |
| `loop_twin` | headers `for x, x` | violated: `ScopeRestored` (finding 1) |
| `body_parser` | all sequences of up to 4 tokens with all line breaks, all texts of up to 3 typical lines; one failing allocation | `SameVerdict`, `NothingLost`, `BlocksClosed`, `DiagsCollected`, `AcceptsGrammar`, `Terminates` |
| `body_stale` | same with 3 tokens | violated: `AllErrorsCollected` (finding 2) |
| `expr_parser` | all sentences of up to 8 tokens over one atom, three binary operators and the brackets; 25 longer sentences with the other constructs; sentences of up to 6 tokens and the long ones with one token dropped or replaced; one failing allocation | `ParsesGrammar`, `OwnedOnce`, `SpanEndsRight` |
| `template` | all templates of up to 4 pieces over 16 plain and 13 stripping pieces, all nestings of complete directives in 6 pieces | `ActiveIsNesting`, `RendersMeaning`, `SilentBranches`, `Terminates` |
| `evaluator` | expressions of up to 3 layers over unknown, typed unknown, list, object and known leaves; every collection builtin on lists of up to 2 elements and objects of up to 2 fields, with and without unknowns inside; conversions of these to 18 types; calls of the functions on texts, see below | `KnownInKnownOut`, `OpenAnswersHold`, `ObjectLoopsMean`, `CollectionsMean`, `DecodesBack`, `DecodesMeaning`, `DatesAgree`, `SubnetsFit`, `TextsMean` |
| `unknown_equality` | `[a] == [b]` and `!=` | violated: `AnswersHold` (finding 3) |
| `regex` | all patterns of up to 3 tokens out of 9 and of 4 out of 6, well-formed or not; groups with 10 bodies under 16 quantifiers and pairs of quantifiers, 3 tails; assertions, named groups; each on 4 texts of up to 5 characters, budget 150 | `MatchesInOrder`, `NothingLost`, `GroupsInMatch`, `CompilesLanguage`, `FindsNearMatches`, `GetsOn` |
| `regex_repeat` | the same bodies under `{3}` | violated: `FindsMatches` (finding 4) |
| `json_body` | documents of up to four levels of objects and arrays with up to two entries and two names, six schemas with up to two levels of labels, nested and with a name that is an attribute and a block type; one failing allocation | `OwnedOnce`, `DecodesWhatFits`, `LabelsArePath` |
| `lexer` | strings of up to 6 characters over `" $ { } \ a` and of up to 8 that begin with `"${`; comments of up to 5, numbers of up to 4, operators of up to 3 characters; heredocs of 7 heads, up to 2 of 7 lines and 3 ends; delimiters of up to 2 characters; one failing allocation | `LexesGrammar`, `ScannersAgree`, `Terminating` |

`TypeOK` is checked where it says more than types, as in `loop_scope`, where no name is
in the table twice, and in `template`, where it bounds the cursor; the assumption
`JobsAssumption` of `RegexMachine`, that every compiled program is well-formed
and bracketed, is evaluated for the whole instance of `regex`. The `TypeOK` of
`BodyParser`, which also says which function may have called which (`CallersOf`), is proved;
so is that of `ExprParser`, and `Grouped`, which no run checks by itself, since
`ParsesGrammar` compares whole trees.

The calls of the functions on texts in `evaluator`:

* JSON: all texts of up to 4 tokens out of 8, and four longer ones with one token
  dropped, replaced or inserted;
* YAML: some eighty values (texts that look like numbers, keys, comments or items;
  block scalars; up to three levels) in 36 styles: flow, compact or indented, three
  quotings, two indentations, with comments; merge keys over anchors;
* CSV: four tables with every choice of quoting, line ends and last line;
* round trips of JSON, YAML and base64 over nested values with quotes, escapes and
  empty collections, and over every text of up to two characters that a decoder
  looks for;
* prefixes of both families, aligned or not, of length 0, full length or malformed,
  with rows of up to six sizes, with numbers at the edges;
* 14 days at the ends of months, centuries and eras, times three times of day,
  four zones and eleven durations;
* formats of up to three directives, with explicit indices, flags and widths;
* `split`, `replace`, `trim` on all texts of up to 4 characters over two, with patterns
  that overlap themselves; `substr` at every offset from -6 to 6; `sort`, `transpose`,
  `parseint` in six bases; paths of up to five elements with
  `.` and `..`, 22 patterns of `fileset` on a small tree; files that are almost UTF-8.

Why the bounds are enough. *Loops*: interference needs an inner loop that reuses
a name of an outer one, in either role; two names and two levels give every such
pair, two elements give "again after one iteration", and six cells are never all
in use. *Bodies*: a failure of recovery involves at most an opening, an error, a
token to skip and a token to stop at; the line texts add what four tokens cannot
hold, an error in a nested block followed by more items. One failing allocation
is what the repository's fault injection tests too. *Expressions*: three
operators of three powers in a row need seven tokens, a conditional in a
conditional nine (among the long ones). *Templates*: six pieces hold a directive
inside both branches of another. *Evaluator*: three layers put every kind of
node inside every other with an unknown below; two elements that are equal, equal
after conversion or equal but for the order of fields are what set functions can
confuse, and lists of different lengths what the odometer can; `MaxElements` is 8, so
that products and ranges reach it. *Regular expressions*: a wrong
relocation shows as soon as an operand with targets of its own is moved or copied,
and each of the ten bodies has others; texts of five characters hold two matches
with something between; 150 steps suffice for every pattern of the instance except
loops over nothing, which use up any budget, so that both outcomes occur. *Lexer*: a string
with a marker, a string in it, and a brace in that one has eight characters; a failed
allocation in the middle is followed by every kind of rest; a delimiter that is too
long needs one character more than allowed. *Texts*: the separators of up to three
characters overlap in texts of four; a carry crosses the end of a prefix from sizes
that differ by two; the lengths of the rows are what makes a cursor go past a block
that was aligned up. *JSON bodies*: a stale label
needs two keys at one level, a level below each, and a body in between; an error after
a block was added needs two blocks of which the second is wrong; both fit into four
levels of two entries.

Conditions in properties, so that nobody reads more into them than is there:
`NothingLost` and `BlocksClosed` (of `BodyParser`) speak of parses in which memory
lasted, and `DiagsCollected` counts the end of the input once per block left open, promises
the place of each error only for texts without invalid tokens (finding 2), and promises
different diagnostics only before the end of the input;
`OpenAnswersHold` excludes the expressions in which an operation looks *inside*
a collection for unknowns (`==` on collections, builtins that compare or add up
elements, conversion to a set, spread, filters and computed keys that become errors): for those the code does take answers
back, which is what finding 3 shows; `SpanEndsRight` excludes expressions
that end with a parenthesis; `FindsNearMatches` excludes the repetitions of
finding 4 (`FarCopy`) and unbounded repetition of what may match nothing
(`IdleLoop`); `CompilesLanguage` lets the compiler reject a pattern with an operand
that has no instructions, such as `(?:)a` or `a{0}b`, which it does; `ScannersAgree` speaks of strings without an
escaped marker or backslash inside a marker and with nested strings whose braces are
outside of them (`Plain`), since the two scanners do differ there; `DecodesBack`
leaves out what `yamldecode` is known to misread (`MisreadInYaml`, see section 4);
`SilentBranches` allows malformed text to fail in a branch that is not taken, since the
renderer reads that text; `TextsMean` takes `**` for whole segments of a path, as the
comment at `fsutil.c:139-145` does, and promises of every pattern of `fileset` that
the files it means are found, but that no others are only of patterns in which `**/` stands
before a `*` or nowhere (`KeepsSegments`; the others, such as `**/b`, find too much, see section 4);
`SubnetsFit` speaks of rows that fit into their parent, since the code does not check
that they do, and `DecodesMeaning` of the YAML that the styles write, since the decoder
accepts much that is not YAML.

## 4. Findings

1. **A loop that names one variable twice destroys the caller's binding**
   (`eval.c:774`, also `391-398`). `[for x, x in c : x]` takes `x` twice: the first
   take saves the caller's value, the second finds nothing. At the end the first
   restore puts it back and the second removes it again and frees it.
2. **A skipped token's message hides a later error** (`body.c:53`): `resync` lexes
   after the buffer was cleared, the message of an invalid token it skips stays in
   the buffer, and the next real error cannot write its own. A message that is still
   there at the end of the input is recorded once more for each block that is open, and
   the missing `}` never is. `DiagsCollected` says what does hold of the list.
3. **`[u] == [1]` is answered before `u` is known** (`eval.c:599`, `value.c:206`).
4. **The third copy of a counted repetition jumps back** (`regex_engine.c:378`): its
   targets are compared with the place of the second copy, found to lie before it,
   and left where they were. `(a|b){3}` on `aab` finds nothing, after a search that
   nests so deeply that an 8 MB stack overflows; `(?:a|b){1,3}` on `abab` matches
   all four characters.

All but 2 were also reproduced by running the library. Differences met on the way that
no run is about:

* a failed restore of a loop variable (`eval.c:773,777`, result ignored) leaks the
  hidden value and unbinds it; `LoopScope` models it (`leaked`) and `OwnedOnce`
  shows that nothing else is lost;
* under memory exhaustion the diagnosing `parse_body(false)` may return at a name
  (`body.c:202`), and `parse_block` consumes it as the closing brace, against the
  comment at `body.c:149`: the reason for the condition of `BlocksClosed`;
* GRAMMAR.md and the comment at `parser.c:404-408` say chained splats are rejected,
  the code and README.md support them; an object cannot begin with a key named
  `for`, which GRAMMAR.md allows;
* spread hands builtins unknown elements (`eval.c:1019`, the check for unknown
  arguments at line 996 saw the tuple): `max([u, 1]...)` is an error while `u` is
  unknown, although `builtin/util.c:17-19` says that builtins never see one;
* a set with an unknown element changes its size when the element becomes known
  (`toset([u, 1])`, `convert.c:148`), and sets with the same elements in another order
  are not equal (`value.c:215`): `setunion([1], [2]) == setunion([2], [1])` is false;
* when memory runs out `hcl2_json_decode` returns NULL without a message, although
  `hcl2.h:186-188` promises one; a name that a schema lists as an attribute and as a
  block type is decoded as both;
* registering a function name a second time has no effect (`value.c:285-296`
  appends, `ctx_func` takes the first), while variables are replaced;
* `jsonencode([u])` gives `[null]` although `builtin/util.c:162` calls that branch
  not reached;
* spans do not start at the first token: `parse_binary` stamps the operator's position,
  an access its dot or bracket, `parse_for` its keyword, and parentheses are in no span
  (`parser.c:675`, `552`, `590`, `127`), so that `1 + 22` is reported as 1:3-1:7, while
  `hcl2.h:138-139` speaks of the expression's span; `SpanEndsRight` says what holds;
* `"$${"` is an unterminated string to the lexer (`lexer.c:347`), a literal `${` to
  GRAMMAR.md:236 and to the renderer; an unterminated `/*` leaves its last character to
  be lexed (`lexer.c:174`); a heredoc without its end leaves the cursor at its body; `1.a`
  is the number `1.` and a name; a delimiter ends at a `-`;
* `yamldecode(yamlencode(v))` is not `v` for a text with a quote and a later ` #` or `: `
  (`["a\" #"]`, `{"a\": b" = 1}`): the passes look for comments and colons without regard
  to escaped quotes, against the round trip of `hcl2_test.c:786-789`; `\uXXXX`, which
  yamlencode writes, is read back as `uXXXX`; a block scalar as item of an item
  (`- - |`) is an error; a comment that ends in `: |` is taken for the head of one;
  flow collections accept anything behind their end; `!!int ""` is 0;
* JSON numbers may begin with zeros; surrogates become two sequences of three bytes
  (`json.c:45`), `\u0000` ends the text; `jsonencode(1234567)` is `1.23457e+06`;
  a quote in the middle of a CSV field opens a quoted part, and one that is not closed
  is accepted;
* `cidrsubnets` does not check that its blocks stay in the parent: `10.0.0.0/30` with
  1, 1, 1 gives `10.0.0.4/31`, and after the last address it starts again at zero, so that
  a `/0` with 0, 0 is given out twice; `cidrhost` ignores host bits of its prefix;
  `10.0.0.0/` is a `/0`; more than 64 new bits shift by more than the width (`ip.c:178`);
* the glob `**/b` also matches `ab` and `a/**/x.t` also `a/bx.t`: `glob_match` tries the
  rest of the pattern at every character (`fsutil.c:211-222`), while its comment
  (`fsutil.c:139-145`) says that `**` is any number of path segments; `TextsMean` would be
  violated by `**/b` without its condition `KeepsSegments`;
* a malformed `\u` escape is an error in a branch that is not taken too
  (`eval.c:503-519` does not look at `active`): `"%{ if false }\u12%{ endif }"` fails, as
  a directive in such a branch that cannot be read does;
* `%5v` renders without padding (`format.c:190`); `%[n]` does not move the
  cursor of the following directives;
* timestamps accept the 31st of February, second 60 and signs in fields;
* a regular expression that repeats what may be empty, `(a*)*`, never matches: the
  machine goes round the loop until its budget is gone; a quantifier with nothing
  before it is an ordinary character; `(?:)a` and `a{0}b` are rejected.

## 5. Fairness

`BodyParser`, `Template` and `Lexer` assume weak fairness of their next-state relation,
and nothing else: a call of the library runs in its caller's thread, and as long as it
can take a step it takes one. The choices inside the relation (which allocation
fails) are under no fairness assumption. The other specifications state safety
only and assume none. For the regular expressions `GetsOn` takes the place of
liveness: it is an action property, true without fairness, whose three measures are
bounded by the text and the budget.

## 6. Proofs

All for every value of the constants that satisfies the assumptions named in the
modules (`NoCellIsNotACell`, `HeadersAreHeaders`, `SourcesAreTokens` and so on;
they say that constants have their types).

*Loop scopes.*

* `LoopScope_proofs!TypeCorrect` - `TypeOK` is inductive. The interesting part is
  that the table never lists a name twice; it rests on `SetVarCorrect` and
  `TakeVarCorrect`, which say what the two operations of the table do to every `Lookup`.
* `LoopScope_proofs!ScopeSafe`, `LoopsRestoreTheirScope` - for headers whose two
  variables differ, `BodyScope` and `ScopeRestored`, for any nesting depth, any number
  of elements and any pattern of failing allocations. `BodyScope` is not inductive: it
  speaks of frames that are at their body, while a nested loop has taken bindings out.
  `ScopeInv` says for *every* frame at *every* program point what the table must look
  like once the frames above it have gone, and is preserved by each action. The
  condition on headers is needed: finding 1 is its negation.
* `LoopScope_proofs!ImplementsLexicalScope` - for the same headers the protocol
  implements `LexicalScope`: initial states map to initial states, each action to
  a loop entry, a loop exit, a step of the caller or a stutter.
* `LoopScope_proofs!CellsOwnedOnce` - `OwnedOnce`, without the condition on headers:
  even where finding 1 loses a binding nothing is freed twice. `OwnInv` turns the
  statement round. It puts table and frames into one function `Held` from slots (a name
  of the table, a local of an activation) to cells, and says that this function is
  injective on what is allocated, with nothing allocated left out but what is `leaked`.
  Every action is then one or two of four moves on it: a slot gets a new cell, gives its
  cell back, hands it to an empty slot, or loses it (`OwnerPut`, `OwnerFree`,
  `OwnerMove`, `OwnerLeak`). `HandedBack`, that an activation which restored a variable
  no longer holds it, is what makes the moves legal.

*Bodies and diagnostics.*

* `BodyParser_proofs!TypeCorrect` - types, and that activations call each other as the
  functions do, for every document and any number of failing allocations.
* `BodyParser_proofs!BlocksAreClosed` - `BlocksClosed`. It is inductive, given `TypeOK`.
* `BodyParser_proofs!DiagnosticsAreCollected` - `DiagsCollected`. Its invariant `DiagsInv`
  describes the error buffer between an error and its diagnostic: while a call fails
  the list is one shorter than what was detected and the buffer holds a message that
  is not in it yet; while `resync` skips, the buffer may hold the message of a skipped
  token (finding 2), but only one no earlier than any diagnostic recorded; and a
  position that already has a diagnostic is not one at which the parser can fail again,
  unless it is the end of the input. The last clause is what makes the list ordered
  and free of repetitions.
* `BodyParser_proofs!EntryPointsAgree` - `SameVerdict` compares two runs of one behaviour,
  the strict one that is over and the diagnosing one that goes on, and no invariant on
  the present state alone can do it. As long as memory lasts the parser is
  deterministic: `Succ` is its step as a function on configurations (`StepIsSucc`:
  every action that is not recovery is that step). `Reaches(c, d)` says that d is in
  every set that has c and is closed under `Succ`, so that no recursion is needed.
  `AgreeInv`: the strict run has come from the start to where it is; before the first
  diagnostic the diagnosing run reaches the configuration in which the strict run
  ended; from then on the first diagnostic is the strict run's message, since an error
  without recovery fails through all activations (`FailsToTheEnd`).
* `BodyParser_proofs!PartialDocumentKeepsItems` - `NothingLost`. `KeepInv`: every item
  completed is held by an activation, or by the document if none is left, and the
  activations that hold no items (`Bare`) indeed hold none.

*Expressions.* One inductive invariant, `IInv`, carries all four theorems, for every
sequence of tokens and any number of failing allocations.

* `ExprParser_proofs!TypeCorrect` - `TypeOK`: `parse_expr` and the functions it reaches
  stand above one another as their calls have it, each with as many cells in its locals
  as it has at that point, and a call returns a live node or nothing.
* `ExprParser_proofs!CellsOwnedOnce` - `OwnedOnce`, which counts the owners of a cell. It is
  not inductive in that form, since `node_free` gives back everything below a node in
  one step. `OneOwner` says it of a forest: what the locals and the returned value hold are
  roots, no two the same, no root is anyone's kid, no cell has two parents, and the live cells
  are the least closed set around the roots, so that no cycle can be left behind. `Reach`, the recursion of
  `node_free`, is shown to be the least set that has the roots and is closed under kids;
  no more is used of it. Then every action is a few moves on the forest: a new
  cell becomes a root, roots become the kids of one, a root changes hands, roots are
  given back with all below them. Each error exit is the last of these, for exactly the
  roots its function holds.
* `ExprParser_proofs!GroupsByPower` - `Grouped`. It needs what the loop of `parse_binary`
  knows while it runs: a `binary` frame of power m stands on `parse_expr` with m = 1 or on
  one that waits for a right operand of an operator of power m - 1 (`CallsOn`); its
  left operand binds at least as tight as m and as the token after it, and what it returns
  is followed by a token that binds less than m (`Fits`). What is not an operator's node
  binds tightest, so the statement goes through every other construct untouched.
* `ExprParser_proofs!SpansEndRight` - `SpanEndsRight`, of accepted expressions. The
  invariant says it of every call that returns and of every traversal that goes on: the
  node ends where the parser stands, or the token before is a `)` (`EndsAt`).

`Good` gathers what is true of the stack, the heap and the forest between two moves, and
`Turn` what a function promises when it returns and relies on when it runs. `Keeps`
goes through the actions, one group of lemmas per function of the parser.

*JSON bodies.*

* `JsonBody_proofs!TypeCorrect` - activations are well-formed and call each other the way
  the code does, for every document, every schema and any number of failing
  allocations. In particular `filled` never passes the number of labels, so that no key
  is written behind the buffer.
* `JsonBody_proofs!CellsOwnedOnce` - `OwnedOnce`. `OneOwner` says it of a stack, a body that
  is being returned and the result, and every action is one or two of five moves on it:
  an activation begins with cells just allocated (`OwnPush`), ends and gives back or hands
  on what it owns (`OwnPop`), goes on with more or less (`OwnTop`), an activation far
  below takes what was returned (`OwnGrow`), or what was returned is given back
  (`OwnForget`). The statement is not inductive alone: `Quiet` adds that a returned
  body is waited for by the maker of a block, and that a running `decode_body` has no
  label buffer.
* `JsonBody_proofs!LabelsFollowKeys` - `LabelsArePath`. `PathAt` finds the owner of the buffer
  by arithmetic instead of a search: at level n of the labels it stands n + 1 activations
  below, with nothing but `decode_blocks` between, and its buffer has a place for each
  level. `OutAtIs` is the search's side of it. With that, writing the next key leaves the
  places of all levels above alone (`ShapeLabel`).

*Templates.*

* `Template_proofs!TypeCorrect`, `ActiveCorrect`, `SilentCorrect` - for every
  template: the cursor stays in the source; `active` says exactly whether all
  enclosing directives render the branch the cursor is in; a step under a
  directive that does not render its branch emits, strips and evaluates nothing, and
  fails only where the text itself is malformed.
  `ActivityInv` strengthens `ActiveIsNesting` to every prefix of the stack, since
  what `handle_if` restores is the flag of the frame below.

*Regular expressions.*

* `RegexMachine_proofs!TypeCorrect`, `SearchInOrder`, `ReplaceLosesNothing`,
  `SearchGetsOn` - for every well-formed program, text and budget. That a match ends
  no earlier than it begins is not inductive: the captures are written by
  instructions of the program. `AttemptOK` says what slot 0 and slot 1 hold at each
  program counter, and `StackOK` that undoing never touches slot 0 except in the
  outermost activation, so that no failed branch can spoil it.
* `RegexMachine_proofs!MatchesHoldTheirGroups` - `GroupsInMatch`, for every program that
  is also `Bracketed`. `GroupsAt` says what the captures may be at a program counter:
  a group that is open there has its beginning behind the start of the match and no
  later than the cursor, any other one both ends in order, or none. That must also hold
  of captures which are not there any more, those a waiting branch will find
  after everything above it was undone. `Unwinds` therefore asks for a *sequence* of
  captures, one per waiting activation, each what the next becomes by undoing
  one frame; the proof extends that sequence with every push and cuts it with every
  return.

`WellFormed` and `Bracketed` are what `JobsAssumption` says of a compiled program. The
compiler is recursive and not proved; TLC evaluates the assumption for every program
that `RegexCompiler` makes of the patterns of `regex`.

*Addresses.*

* `Builtins_proofs!BlocksAligned`, `CursorGoesForward`, `NextBlockDisjoint`,
  `SubnetInside` - for addresses of any width and prefixes of any length: a masked
  address has no bits below its prefix; the next block of a size comes after this one,
  unless there is none; the block that `cidrsubnets` takes next has no address in common
  with the one before, whatever their two sizes; a subnet has the bits of its parent. The
  argument is about carries: `CarryStops` finds the bit a carry ends at, as the greatest
  of the zero bits of the prefix, and `Increment` says that the bits above it stay, this
  one is set, and those below are cleared. Blocks differ at that bit. The whole row of
  blocks (`Allocated`) is a recursive function, so that the theorems are about its step.

*Dates.*

* `Builtins_proofs!MonthsFollow` - the first of a month has as many days less than the first
  of the next one as the month has (`MonthDays`), in every year; with `FromMarch`, that
  days of a month are consecutive, this is the calendar. The argument counts
  leap years: `YearsCounted` shows that the eras of `days_from_civil` amount to
  365a + a/4 - a/100 + a/400, and `Multiples` says when each quotient goes up.
* `Builtins_proofs!DatesComeBack`, `DaysHaveDates` - the two conversions are each other's
  inverse, on the dates that exist and on all days. `YearOfDay` and `YearHolds` are about
  the correction of `civil_from_days` by 1460, 36524 and 146096, that it finds the year also
  on the last day of a leap year, a century and an era.
* `Builtins_proofs!MomentsAreCounts` - a day and a second of it (`Calendar`) behave as the
  code's one count of seconds under `timeadd` and `timecmp`. This is a theorem about the
  abstraction the models make. Integers are unbounded here and `long long` in the code.

Only model-checked:

* liveness: `Terminates`, `Terminating`;
* what compares with a recursive reference, which needs induction over data:
  `RendersMeaning`, `ParsesGrammar` beyond `Grouped`, `AcceptsGrammar`, `LexesGrammar`,
  `ScannersAgree`, `ObjectLoopsMean`, `CollectionsMean`, `DecodesBack`, `DecodesMeaning`,
  `DatesAgree` beyond the conversions, `SubnetsFit` beyond its step, `TextsMean`, `FindsNearMatches`,
  `CompilesLanguage`, `DecodesWhatFits`;
* the evaluator, whose node semantics are recursive operators: `KnownInKnownOut`,
  `OpenAnswersHold`;
* that the `held` of a body is what its tree holds (`HeldIsTree`): induction over the tree.

## 7. Plan

Order of work, most important behaviour first.

1. Done: loop scopes, bodies, templates with proofs; evaluator and
   unknowns; expression parser with proofs; regular expressions with proofs; JSON bodies
   with proofs; conversion and collection builtins; lexer; texts, codecs, paths; addresses and
   dates with proofs.
2. Next, modules: an evaluator with an allocation budget (what `try` and `can` make of
   running out of memory, `vclone` of typed unknowns); `templatefile` and
   `hcl2_json_eval`, which compose a file or a JSON document with the renderer.
3. Proofs, in this order: that the cursor of `Lexer` only goes forward; that the tree of an
   accepted expression has exactly the tokens of its source, in their order, which
   together with `Grouped` is what `ParsesGrammar` says, but needs induction over trees;
   that the `held` of a body in `JsonBody` is its tree, likewise.
4. A run for each question: the runs above ask one per component, and a deeper
   property takes the place of a shallower one of the same component.

Abstract specifications worth stating besides `LexicalScope`: a diagnosing parser
that sees the errors of a text as a set (implemented by the two modes of
`BodyParser`).

## 8. Not modelled, and why

* *Positions for messages* (`lx_linecol`): computed from the text when asked for,
  nothing else depends on them. What a number's digits are worth (`strtod`).
* *Limits of formats and durations*: `format` keeps about 70 characters of a directive's
  flags, width and precision and rejects a result of more than 2^20 characters
  (`format.c:41-75`, `154-175`); `strtod` also reads amounts of a duration with an exponent, in
  hexadecimal, as `inf` or `nan` (`timefmt.c:128`).
* *Fractions*: `%g` (`convert.c:73`, `eval.c:107`), `double` rounding, `ceil`, `floor`,
  `log`, `pow`, the verbs `%e %f %g` of `format` and its unsigned verbs on negative
  numbers. The models have integers.
* *Characters of several bytes* in the functions that cut by runes (`substr`, `title`,
  `strrev`): a text is a sequence of characters in `Texts`; the encodings themselves are
  in `JsonText` and `Bytes`.
* *Digests and UUIDs* (`builtin/crypto.c`, `uuid*.c`): published algorithms without
  control state, checked against reference vectors by the repository, and random numbers.
  `timestamp()` and `plantimestamp()` read the clock.
* *`templatefile`, `hcl2_json_eval`*: planned. *`filebase64`*: the composition of two
  functions that are modelled. *Errors while reading a file*: the host's.
* *Wording of messages, schemas under construction* (`hcl2_schema_attr`), and
  `hcl2_ctx_set_func`.
* *`builtins.c`* in the root: not compiled, superseded by `builtin/`.
* *Depth of recursion*: the parser and evaluator have no limit; the models
  neither, except for the bounds of the instances.
* *Memory exhaustion in the evaluator and the renderer*: the renderer treats it as
  an evaluation error, which is how it is modelled; the evaluator's is planned; the
  regular-expression compiler ignores a failing `emit`, which is not modelled.
* *The `$` expansion of `replace()`* and the value `regexall()` builds from captures:
  reading only, except that mixed named and unnamed groups end the search.
