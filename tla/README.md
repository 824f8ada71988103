# Verification of the TD-Scrape command line

TLA+ models of the scraper code of this repository, the TLC runs that check
them, and theorems about them that TLAPS proves.

The repository's own code is about 1,900 lines of Python and shell:
`scrapers/` (the command line), `TD-Scrape/` (the scraper scripts it spawns) and
three shell wrappers. `LLVM-Targets/` is the input data and `dependencies/`
third-party code. There are no tests; `GUIDE.md` documents the behaviour.

## 1. Inventory

| Part | Code | State | Operations |
|---|---|---|---|
| Syntax-tree walk | `_walk` in `td_scrape_core.py`, `scrape_cmd.py`, `grab_cmd.py`, `walk` in `scrape_cpp.py` | an explicit stack of nodes | yield the next node in source order |
| Inventory of a file | `_parse_td_file` (two copies) | lists of includes, classes, defs, defms, multiclasses | a row per matching node; read and parse errors recorded per file |
| Inventory of an architecture | `run_td_scrape`, `parse_td_inventory`, `main` of `scrape_cpp.py`, `_parse_arch_records` | the listing of the directory, the per-file results | check the directory, list, sort, read and parse each file, sum up |
| Scrape categories | `_flat_records`, `_named_pool`, `_keyword_records` in `scrape_cmd.py` | none | select and sort rows per category |
| Fields and bases of a record | `_split_top_level`, `_extract_fields`, `_extract_parent_info` in `grab_cmd.py` | depth, quote and escape flags, the part being collected | cut a text at its separators, split the parts at `=` |
| `td run`, `cpp run`, `td smoke`, `cpp smoke` | `cli.py:182-383` | the plan of architectures, rows, failures | spawn the script per architecture, wait, read back (smoke), report |
| `scrape` | `cli.py:386-491`, `scrape_cmd.py` | plan, files written, failures | validate, scrape in process, write category, merged or combined files |
| `grab` | `cli.py:494-552`, `grab_cmd.py` | plan, failures; the coalesced payload | scan the root, build the payload, write `<arch>.json` |
| `arch list/scan/verify` | `cli.py:140-179` | none | report on one directory listing |
| Output files | `_write_json`, `write_text` in each writer | JSON files below the repository or anywhere else | truncate in place, write, close; no temporary file, no lock |
| Argument parser, shell wrappers, entry scripts | `cli.py:555-724`, `*.sh`, `scrape_td.py` | none | hand arguments on |

How the parts interact: a `run` or `smoke` invocation is a parent process that
spawns a script as a child per architecture and waits for it. The child's only
results are its return code and the file it wrote, which `smoke` reads back.
`scrape` and `grab` work in one process. Everything is sequential inside a
process. Concurrency comes from outside: several invocations at a time share
the output files, the LLVM tree can be updated while it is read, and parents and
children can be killed independently. A failure of one architecture is counted
and must not stop the others; the exit status is all a calling script sees.

What makes each part correct, and what is hard about it:

* walk: each node once, none skipped, in source order, for any nesting; the
  loops that consume it keep exactly the declarations.
* dispatch: an OK row reports the inventory that its own script made; a FAIL row
  and a traceback have a cause; status 0 means the inventories are on disk.
* inventory: a file that fails costs nothing but itself, although the tree may
  change between the listing and the reading; what did not change is reported as
  it is, in order.
* fields: a one-pass splitter with three flags and no stack has to find the
  separators at the top level in any nesting of brackets, quotes and escapes.
* grab: the payload of one architecture fails without harm to the file that was
  there before and to the architectures after it; it writes the same names as
  `td smoke`, and neither may be taken for the other.
* scrape: the rules accept a command line only if all its files can be built;
  what is on disk after a failed or killed run agrees with the report; no
  selected category is lost.
* all commands: the exit status says whether all of the plan succeeded, and the
  command ends.

## 2. Modules

| Module | What it is |
|---|---|
| `AstWalk` | one pass of `_walk` and its two consumers over the tree of one file |
| `AstWalkProofs` | theorems about `AstWalk` |
| `SequenceLemmas` | facts on sequences, orders and selections that several proofs rest on |
| `ArchBatch`, `ArchBatchProofs` | the abstract promise of every command over architectures, and what its exit status means |
| `OutputFile` | a file written by `Path.write_text`, possibly by several writers, and what a reader gets |
| `Dispatch`, `DispatchProofs` | `td/cpp run/smoke`: any number of invocations, their scripts, the files, the tree |
| `ScrapeCmd`, `ScrapeProofs` | `scrape`: runs one after the other over the same files |
| `GrabCmd` | `grab --all`, `grab --arch`, `arch verify`: any number of invocations |
| `SharedOutput`, `GrabProofs` | `GrabCmd` and `Dispatch` at the same time on one root, one tree and one set of files |
| `Orders` | what `sorted`, `list.sort`, a filter and nested loops return |
| `Inventory`, `InventoryProofs` | the scan of one architecture's directory in its four programs, and scrape's categories |
| `Fields`, `FieldsProofs` | `_split_top_level`, and the fields and bases that come from it |
| `MC...` | instances for TLC |

Operators whose name starts with `Faulty` are variants of the definition that
follows them, with a plausible mistake. The models do not use them. Each was put
in the place of the real definition once to see that a property fails.

### AstWalk

`stack` and `visited` are `_walk`'s stack and what it has yielded; `rows` what
the loop has collected per kind; `file` and `consumer` choose the tree and the
loop. One action, `Visit`, is one iteration: pop, yield, run the body of the
consuming loop, push the reversed children. A tree is a record of child lists,
node types, the is-named bit, lines and texts. The model contains the fact that
matters about Tree-Sitter: the keyword of a declaration is an unnamed child
whose type equals the type of the declaration itself. `Row` abstracts what a row
holds to its line and name. grab's list is kept per kind; its sort, which comes after the last
file, is in `Inventory`.

### OutputFile

The operators follow `write_text`: `Opened` truncates, `Closed` ends a complete
write, `Abandoned` is a writer that dies at any point. `Reads` is the set of
results a reader can get: one body when the last opener has finished and all who
wrote since wrote the same, otherwise any of the bodies or something that
`json.loads` rejects (an empty, partial or mixed file). The choice among mixed
contents is made at each read, which allows more than a real file does.

### Dispatch

`inv[v]` is an invocation: its command line, phase, plan, settled rows, the last
return code, its exit status. `child[v]` is the script it waits for, in phases
`check` (is_dir), `list` (rglob and parsing), `write`, `writing`, `exited`.
`tree[a]` is a version number of an architecture's directory, 0 when it is
missing. A row carries two history fields: the version of the inventory that was
read back, and the version of the tree when the script was spawned. Refusals and
the uncaught exceptions are actions of their own (`Refuse`, `ScanRaises`, the
last case of `ReadBack`). `ChildFails` is a script that raises or gets killed,
`KillParent` the death of the parent, after which the script goes on, `UpdateTree`
a change of the LLVM tree. Directory creation is left out: it is idempotent and
nothing depends on it.

### ScrapeCmd

`run[r]` is one run with its arguments, plan, the step it is at, the files it
has written and its status. `Refused` has the validation rules. `Turns` numbers
the files of one architecture: 0 is the merged or combined one, i the one of the
i-th selected category, and a category that is combined has no turn, which is the
`continue` of the loop; `FileOf` is the path and the contents of each. Bodies
are reduced to architecture, categories and run. A file name is the sequence of
its words, so that `c.json` and the `C-D.json` that `--combine` makes up differ,
and a user's `--combine-file` can equal either. Runs follow one another on the
same disk, and the tree may differ from run to run. `WriteFails` is the
`except Exception` of the loop, `Kill` the end of the process at any point.

### GrabCmd

`grab[v]` is an invocation: command line, phase, plan, settled rows, and for the
current turn the step it is at (`check`, `build`, `write`, `writing`) and the
payload. `CheckRoot` and `Scan` are two steps, since the root may go between
them: `iterdir` then raises, and nobody catches that. `Verify`, `PlanAll` and
`PlanOne` are what the three commands do with the scan; `--all` lets the
`ValueError` of `_resolve_output_path` escape, `--arch` catches it. A payload is
reduced to its architecture and the version of the tree it was built from; it is
built before the file is opened. `Raises` stands for every exception of the `try`
block, `KillGrab` for the end of the process, `RemoveRoot` and `UpdateArch` for
changes of the tree.

### SharedOutput

The composition. `root`, `tree`, `latest`, `disk` and `faults` are shared,
everything else belongs to one component. A step is one of `GrabCmd`, with
`Dispatch`'s own variables unchanged, or the reverse. Each component knows of the
other through a constant `Others`, the writers of the same files that are not its
own. `Dispatch` has a third kind of file body for that reason: a payload has no
summary, so that a smoke test that reads one back fails the architecture.
`RemoveRoot` can only happen here. `Dispatch` looks at the root before it starts
the loop and never again, and its scripts look at the architecture's directory.

### Inventory

One scan: `Check` is `is_dir`, `ListDir` one directory that `rglob` looks at,
`SortListing` the `sorted` around it, then `ReadFails`, `ParseRaises` or `Parse`
for each file, then `Finish`. `Touch`, `Move` and `RemoveDir` change the tree
between any two of them. The constant `Consumer` chooses the program: the td
and cpp scripts and scrape keep a result per file, grab keeps records and a list
of issues. `PathOrder` and `StringOrder` are two orders of the same files: `Path`
objects are compared by component, and the rows of a category by string, where
`s-b/x.td` comes before `s/x.td`. What a text holds is the constant `Nodes`: the
nodes of its syntax tree that have a row, in source order. Named nodes are
declarations, with a name or anonymous (`def : Pat<...>`); unnamed ones are keyword
tokens, with a declaration around them or left over in an error node. How the nodes
are found is the matter of `AstWalk`: its theorem `InventoryListsNodes` says that the
rows of a file are its nodes of the kinds that have rows, in source order, which is
`RowsOf` here, and `GrabListsDeclarations` the same of `RecordsOf`. `_flat_records`, `_named_pool`, `_keyword_records` and grab's sort are
operators on the results. That a name contains one of the keywords of a category
is the constant `Matching`. What a filter leaves of a list (`Selected`) and what a
sort makes of it (`Arranged`) come from `Orders`, which says what they return and not
how: the elements up to one in the order are counted, and that is its place.
`SortedBy` is `list.sort` with a key. Its order `NotAfter` is stable: two records with
one key are told apart by the places they had. `Concatenated` is what nested loops
append to: all rows of the first file, then those of the second. In `Fields` it puts
a text together.

### Fields

One action per branch of the loop of `_split_top_level`: `Escaped`, `Backslash`,
`Quote`, `Plain`, `Cut`. A text is a sequence of tokens: the characters the code
looks at, whole identifiers, and one character for all the others. White space is
left out: the code strips it at the ends of a part, and a part that has nothing
else is dropped either way. `cuts` is a history variable. `FieldsOf` and `Bases` are what
`_extract_fields` and `_extract_parent_info` make of the parts.

The texts are generated from what they were written for: statements with a left
side and a value, followed by any noise (`Source`). That gives `FoundAsWritten`
something to compare with that is not another parser. `OrderAssumption` says what is
asked of a statement: its quotes and brackets are in order, and a `;` in it is within
them (`Balanced`). It is stated with counts of quotes and brackets before a position,
as `AtTopLevel` is, and not with the splitter's flags. Nothing is asked of the noise.
A code fragment with a single `<` or quote is not in order and belongs to the noise:
what comes before it is found, what comes after it may not be.

### ArchBatch and the refinements

`ArchBatch` says: refuse with status 2, or plan, settle each architecture in
order, and conclude with 0 exactly if all succeeded; or die with another status.
`Dispatch!ImplementsBatch`, `ScrapeCmd!ImplementsBatch` and
`GrabCmd!GrabImplementsBatch` check that all keep it, under a mapping that forgets
everything but phase, plan, outcomes and status. An `arch verify` has a verdict of
its own and is idle in that mapping; so is a grab between its look at the root and
its scan. `SharedOutput!AllKeepPromise` states it for grab and the td and cpp
commands while they interfere.

## 3. Runs

| Run | Bounds | What it shows |
|---|---|---|
| `walk` | every tree of at most 3 declarations that the grammar allows, both consumers | the safety properties of the walk and its end |
| `walk_rows` | 1 declaration | violated: a declaration has two rows |
| `dispatch` | 2 invocations, 2 architectures, 1 death, 1 update of the tree | what rows, tracebacks and exit statuses mean under interleaving |
| `dispatch_root` | the same | violated: a missing root gives status 1, not 2 |
| `scrape_args` | 1 run, 3 categories, every command line, 1 fault | the rules and the plan of files fit together |
| `scrape_reruns` | 2 runs, 5 ways of writing, 2 faults | disk and report agree after failures and kills |
| `scrape_collide` | 1 run | violated: `--combine-file` can name a file that is overwritten |
| `scrape_combine` | 1 run | violated: one category twice passes for two |
| `shared` | 1 td or cpp command, 2 of grab and verify, 2 architectures, 1 fault, 1 change of the tree | the commands survive each other's files and a tree that vanishes |
| `inventory` | 3 files in 3 directories, 2 changes of the tree, 1 parser failure, 3 programs | what a report says about a tree that changes |
| `inventory_escape` | the same | violated: one string fails the architecture in grab |
| `fields` | 2 statements with 2 left sides and 4 values, up to 3 of 5 tokens as noise, 2 parent classes | the splitter and what is made of its parts |

Why the bounds are enough: three declarations give siblings, nesting two deep and
a sibling after a nested one, the cases in which the order of pushes differs; the
theorems remove the bound. Two invocations are what it takes to share a file, and
the properties quantify over pairs. One update of the tree suffices for a file to
be older than the tree, and one death for each way a process can end. Three
categories, two of them combinable, give one that is combined, one that is not
and one that may not be. Two runs with two faults reach a torn file on top of an
older whole one, and a failing second run. In `shared` the command lines that are
started together are chosen so that each pair that can meet on a file does: smoke
with `--all`, `run` with `--arch`, `--all` with `--arch`; the others cover the
refusals and default outputs. One change of the tree is enough to take the root
or an architecture away between any two steps. Three files are the least for two
orders to differ with one file before both, and two changes move a file from where
it was listed to where it is still to be read. `inventory` leaves `td` out because
its loop is the same as scrape's. One of its texts has two declarations of different
kinds on a line, in the order in which the sort has to swap them; the other has error
nodes, bad escapes, a keyword token without a declaration, and a named and an
anonymous `def` on one line. With their tokens that makes rows that have no name, and
rows that are equal, which have to be counted. In `fields`, three tokens of noise are what it
takes to leave a quote, a bracket or an escape open in front of a separator.

### Properties, by the question they answer

* `EachNodeOnce`, `NothingSkipped`, `Frontier`, `SourceOrder`: is the explicit
  stack a preorder traversal?
* `GrabKeepsDeclarations`, `NamedRowsAreDeclarations`: do the loops keep what they
  should? `NamedRowsAreDeclarations` shows that the
  keyword pool of `scrape`, which drops nameless rows, is not affected by the
  doubled rows.
* `OkRowFresh`, `ReadbackFailsOnlyIfShared`, `TracebackOnlyOnForeignFile`: what a
  row of a smoke report says about the world, and when it may mislead.
* `SuccessLeavesInventory`: can status 0 be trusted, and do concurrent runs of
  one command destroy each other's output? (Not if they succeed on one tree.)
* `ReportsWhatStoodStill`, `EveryListedFileAccounted`, `EntriesAreHistory`,
  `RaisesOnlyIfGone`: what a report says of a tree that changed while it was made,
  and what can cost more than one file.
* `CategoriesComplete`: does a keyword category of scrape have each declaration
  whose name matches as often as it is in the files, although the inventory has
  another row for its keyword? Does a structural one have all rows of its kind, with
  a name or without? And are both in the order of their keys, where the files are in
  another one?
* `SplitsAtTopLevel`, `FoundAsWritten`: are depth and two flags enough, and does
  what follows a statement leave it alone?
* `FailureKeepsOldFile`, `ReportedFilesHold`: what is on disk after a grab, and
  who else can have changed it.
* `SmokeUndeceived`: what happens to a smoke test when grab writes into its files.
* `VerifyPredictsPlan`: does `arch verify` say what `grab --all` will do?
* `WrittenFilesWhole`, `NoUnreportedFile`, `TornIsReported`, `SelectedSurvive`,
  `FailuresHaveCause`: does the report of `scrape` match the disk?
* `ImplementsBatch`, `AllKeepPromise`, `WalkEnds`, `AllEnd`: the exit status, and that one is reached.

### Deadlock

Deadlock checking is off in all runs: the programs end.

### Fairness

`_walk` is a loop that waits for nothing: weak fairness of its only action.
In `Dispatch` each parent and each script is a process that the operating system
schedules until it ends; a parent waits only for its script. That a script ends
is an assumption about parsing, which has no time limit in the code
(`subprocess.run` has no timeout). In `ScrapeCmd` the running process is scheduled
until it ends. In `SharedOutput` each grab is one more process, and each parent and
script keeps its own fairness. No fault, kill, change of the tree or start of a
new run is fair. `Inventory` and `Fields` have no liveness properties: both are
loops over a finite sequence inside one of these processes.

## 4. Disagreements found

1. The inventory loop tests `node.type` only and counts the keyword token of each
   declaration as another declaration (`td_scrape_core.py:69`, `scrape_cmd.py:120`):
   `OneRowPerDeclaration`. grab asks `is_named` and is right.
2. A missing LLVM root gives status 1 from `run` and `smoke` (from `--all-found`
   with a traceback); `GUIDE.md:788` says 2: `ExitTwoOnBadRoot`.
3. `--combine-file` may have the name of a separate category's file, which then
   overwrites it. Both are reported as written, and the combined file, in which
   `GUIDE.md:349` has the combined categories, is nowhere: `CombinedInOneFile`.
4. `--combine c,c` passes "requires at least two categories" (`cli.py:424`):
   `CombineNeedsTwo`. In the same place `--combine ,` is taken for no `--combine`,
   with or without `--output`.
5. `_first_quoted` decodes with `unicode_escape` (`grab_cmd.py:264`), which raises
   for `\x` without digits and the like. Nothing in the loop over records catches
   it: one string fails the whole architecture, where `GUIDE.md:992` (and 619-627
   of the other extractors) wants errors recorded per file: `ContinuesOnFileErrors`.
   No `.td` file in `LLVM-Targets/` has such a string today.

Two more that no property is about: the default outputs of `td run` and `cpp run`
are below `output/` (`cli.py:64-69`), where `GUIDE.md` names files below
`TD-Scrape/` (205, 261, 1021); and the pool of `scrape` makes the name of a kind by
dropping the last letter of the list's name (`scrape_cmd.py:176`), which turns
`classes` into `classe`.

## 5. Proofs

`AstWalkProofs` proves for every set of files and every tree, of any size, that
meets `TreeAssumption` (each node but the root has one parent and one place among
its children, all are reachable from the root, and tokens have no children) all safety
properties of the run `walk`:

* `TypesHold`: `[]TypeOK`;
* `YieldsOnce`: `[]EachNodeOnce`;
* `StackIsFrontier`: `[]Frontier`;
* `YieldsAll`: `[]NothingSkipped`;
* `YieldsInSourceOrder`: `[]SourceOrder`;
* `GrabListsDeclarations`: `[]GrabKeepsDeclarations`;
* `NamedRowsListed`: `[]NamedRowsAreDeclarations`.

`InventoryListsNodes` is about a formula that no run checks, `AllNodesListed`: the
rows of the inventory are the nodes of its kinds, declarations or not. It is what
`Inventory` assumes about the rows of a text.

`EachNodeOnce` is not inductive: that the popped node is new needs `Frontier`
(the stack has no node twice and none that was yielded), and that its children
are new needs that a yielded node's parent was yielded earlier (`ParentsYielded`),
together with the assumption that a node has one parent. `YieldsAll` follows from
these: with an empty stack the frontier is empty, so what was yielded contains the
root and is closed under children, and the tree is connected.

`SourceOrder` needs two more parts. `Covered`: what has not been yielded is nested in
a node of the stack. `StackOrder`: what is nested in one node of the stack comes, in
the source, before what is nested in one further down. The second is what
`reversed` is for. `RowsInOrder` then says that each list has a row for every yielded
node that passes the filter, in source order, and at the end of the walk those are
the declarations; in the inventory also the keyword tokens, which have no name.

Source order is defined by what a node is nested in (`Ancestors`), a recursion along
the parents. `AncestorsEquation` proves that it is well defined on every tree, with
"the smallest set that contains m and is closed under children" as the witness; and
`NodesUnder` is the induction over a tree: what holds of the root and passes from a
node to its children holds of every node.

`ArchBatchProofs` proves `SettledInOrder` and `ZeroStatusMeansAll` for any number
of invocations and architectures: status 0 means that every planned architecture
was attempted, in order, and succeeded.

`DispatchProofs` proves `TypesHold` and `DispatchKeepsPromise`,
`Spec => ImplementsBatch`, for any number of invocations and architectures, any
command lines, and any number of updates, faults and leftover files: what
`ZeroStatusMeansAll` says of `ArchBatch` therefore holds of the four commands.
The argument:

* The types need `ChildOK`: a script has an architecture and a file as long as it
  is there, and an inventory from the moment it has one to write.
* `PlansArePlans`: what a command goes over has no architecture twice. For
  `ALL` that rests on `ArchitecturesAssumption` (the tuple has no duplicate), for
  `--all-found` on the order of `_scan_arch_dirs`.
* A `run` of one architecture returns the script's code and does not look at the
  rows. That its status is 0 exactly if the one row is OK needs the second part of
  `IInv`, `RcFits`: the last code kept is 0 exactly if the last row is OK, and
  such a run has one row.
* `StepIsBatchStep` maps each action: `Settle` to a settlement or, for the
  `KeyError`, to `Abort`; `ScanRaises` and `KillParent` to `Abort`; everything the
  scripts and the tree do to a stutter.

The proofs use `BoundAssumption` and the like only for types (a bound is a number,
placeholders such as `None` are no paths); no bound has a fixed value.

`FieldsProofs` proves `TypesHold` and `SplitsEverywhere` for every text, whether
its brackets and quotes are in order or not. `SplitsAtTopLevel` is stated without
the flags: a separator is at the top level if it is not escaped, has an even number
of quotes before it, and there is no position since which more brackets have been
opened than closed. The inductive invariant says that the flags are just that:

* `EscapedIsOdd`: `escaped` means an odd number of backslashes directly before;
* `QuoteIsOdd`: `quote` means an odd number of unescaped quotes before;
* `DepthIsSurplus`: `depth` is the largest surplus of openers over closers, counted
  from any earlier position. That is what a counter that stops at 0 computes, and
  why a closer too many never makes up for an opener after it;
* `CutsSoFar`: the cuts are the separators at the top level up to `pos`;
* `Lossless`: the parts are the stretches between the cuts.

`FieldsAreComplete` proves `[]FoundAsWritten` for any number of statements and any
noise, from `OrderAssumption` and from what `TextAssumption` says of left sides: they
have no `=`, and their last identifier is the name they define (`_extract_fields`
takes the last one, so that `bits<N> x` defines `x`). The argument:

* `AsWritten`: the text is the statements one after the other, each with its
  separator, and then the noise. Braces and colon have come off (`BracesOff`).
* `Progress` says where the splitter is. `Within(i, j)`: it is at token j of item i, has
  found the items before, has collected the j - 1 tokens before in this one, and its
  flags are those that the tokens of this item alone would give. The depth has never
  been held at 0 by a closer too many, since the item has none (`InsideItem`). At the
  separator after an item all flags are down, so it cuts there and begins the next
  item as it began the first (`AfterItem`). `Behind`: past the items it may add parts
  but changes none (`FoundStays`).
* `PiecesFound`: when the text ends, the parts are the items, and in a body one part or
  more after them, of which there is just an empty one if there is no noise.
* `StatementFound`: such a part is split at its first `=`, which is the one after its
  left side. `FirstCounts` is `setdefault`: the value under a name is that of its first
  assignment, and none of the noise comes before a statement. `DerivationFound` and
  `BasesFound` do the same for the classes.

`GrabProofs` proves `TypesHold` and `AllKeepPromiseHolds` for `SharedOutput`, for any
number of invocations of both kinds, any command lines and any bounds. It does not
repeat the proof about `Dispatch` but uses it: `DP` is an instance of
`DispatchProofs` with the grabs as the other writers. `AssumptionsHold` discharges
the assumptions of that instance, `SameSteps` shows that the steps of `Dispatch` in
the composition are its steps there, and `OnlyTypes` that a step of a grab or a
change of the tree, which `Dispatch` does not have, keeps its invariant: that
invariant asks of the shared files and the tree only that they have their types. On
the side of grab, the invariant adds `GrabOK`: an invocation in the loop is no
verify, and one that is about to write has a payload. `GrabStepIsBatchStep` then
maps each action: a refusal, the scan of a vanished root and an escaping exception
to `Abort`, the scan to `Begin`, the end of a turn to `Settle`.

### Files that several commands write

The second half of `DispatchProofs` is about what rows and statuses say of the
files: `OkRowsAreFresh`, `ReadbacksAreOwn`, `TracebacksAreForeign` and
`SuccessMeansInventory`. Each of the four properties says who else may write a file,
and means by that the files a command line can lead to, whatever the tree looks like
(`Targets`). Two inductive invariants carry them:

* `FInv` adds to the types that a script is the one of the current turn of its
  invocation (`PlanOK`); that what it is about to write was listed after it was
  spawned, in a tree whose directories have gone or become younger since (`BodyOK`);
  that a file is held open only by a script in `writing`, with that script's body, or
  by a command of another kind (`OpenOK`); and that, of the inventories in the file a
  script has written, each is its own or that of another invocation that can write
  the file (`ContentOK`). It holds as well while commands of another kind write the
  same files, which is how `GrabProofs` can use it. An OK row is fresh because
  what was read back is one of those inventories.
* `WInv` is about `Dispatch` alone. A file that one invocation writes holds what its
  script has written, from the open on, and after an OK row (`OwnFile`, `RowFile`).
  The last to open a file is done with it, or still writing, or its script failed or
  its parent was killed (`LastOK`); and all that was written since it opened the file
  is from a script with that target, and from the tree as it is if there was no
  update (`AuthorOK`). When all writers of a file have succeeded, on one version of
  the tree, for one architecture and with one script, they have therefore written the
  same bytes, and the overlay of their writes is that inventory.

The proof of `SuccessLeavesInventory` failed at first, rightly: two runs for
different architectures with the same `--output` file both succeed, and one
inventory is lost. `Undisturbed` now asks that the other writers write the file for
the same architecture, and the run `dispatch` contains such a pair.

The second half of `GrabProofs` has the four properties about grab's files:

* `SmokeIsUndeceived`: `SInv` is `FInv` of the td and cpp commands, and for a grab the
  same about plans and payloads. A payload is not of a script's kind, so `ContentOK`
  is all that is needed.
* `ReportedFilesStay`: what a grab holds open is the payload it is writing
  (`GrabOpenOK`); with no other writer, that is all there is in the file while it is
  written (`GrabOwnFile`) and after the turn ended well (`GrabRowFile`).
* `FailuresKeepOldFiles`: a grab is the last to have opened a file only if it is
  writing it now or has reported something else for that architecture than a failure
  to build the payload (`GrabLastOK`).
* `VerifyPredicts`: while the tree is the first one, what a verify and the plan of a
  grab have seen of it is what is there (`GrabSeenOK`).

### The files of scrape

`ScrapeProofs` proves all safety properties of `ScrapeCmd` and that it implements
`ArchBatch`, for any number of runs, architectures and categories, every command
line, and any number of failed writes and kills. The rules about `--combine` enter by
one lemma, `CombineAccepted`: a combination that is not refused has two or more
entries, all among the selected categories. The invariants, from the bottom up:

* `TInv`: the types, and that plan, rows and position of a run fit together and to its
  arguments (`Fits`); earlier runs are over and later ones idle.
* `DiskOK`: the file of the current turn, while it is written, is held open by the
  run and has nothing else in it; every other file holds the body of the last run that
  opened it and is whole, unless that run was killed or counts a failure for it
  (`TornFilesAreReported`).
* `ListedOK`: the files that a run was the last to open are those it lists as
  written, and the one it is writing, unless it is in trouble (`NoFileUnreported`).
* `PlacedOK`: where the files have names of their own (`NamesDistinct`: no absolute
  name, and no `--combine-file` with the name of a separate category's file), each
  turn that is done has its file, whole and with its categories, and nothing else is
  listed. Two turns, or the turns of two architectures, then never meet in a path
  (`PastIsElsewhere`), so that no later step undoes it (`ReportedAsWritten`,
  `SelectedAreKept`).

All steps of `ScrapeCmd` fall into four kinds as far as the files are concerned:
`Still`, `OpenFile`, `CloseFile` and `Tears`. Each invariant is proved once per kind.

### The scan of a directory that changes

`InventoryProofs` proves of `Inventory`, for any files, directories, texts, number of
changes and parser failures:

* `TypeCorrect`: `[]TypeOK`;
* `OnlyHistory`: `[]EntriesAreHistory`;
* `EveryFileAccounted`: `[]EveryListedFileAccounted`;
* `WhatStoodStillReported`: `[]ReportsWhatStoodStill`;
* `NoFileStopsTheScan`: `[]RaisesOnlyIfGone`;
* `CategoriesAreComplete`: `[]CategoriesComplete`.

None of the last five is inductive: they speak of the report, or of the end, and say
nothing of the phases before. The invariant `IInv` says in each phase what has been
found, what has been read, and what is held of each file:

* `WorldOK`: a file is there only if its directory is, and what is there has been there.
  The tree changes by `Touch`, `Move` and `RemoveDir`; all three are a `TreeStep`, which
  adds to the history of each file and leaves the scan alone. A file that has not been
  touched after such a step had not been before (`UntouchedBefore`), which is why the
  clauses about files that stand still survive every change of the tree;
* `FoundOK`, `QueueOK`: a file that stands still is found, or its directory is still to
  be looked at; once the listing is sorted, it is in the queue;
* `FilesOK`: td, cpp and scrape have one result for each file that was read, the i-th
  one of the i-th file. A step that read a file twice, or skipped one without a result,
  would shift all results after it;
* `EntriesOK`, `IssuesOK`: each result or issue is of something that was the case of
  that file at some point of the scan;
* `RecordsOK`: grab has no result per file, only a list of records. Those of each file
  it has read are all the records of one version of it, or none, and then it failed.

`FilesReported` and `RecordsReported` then go from the invariant to the report. The
results of the files that stood still are a selection from the results, at the same
places as those files in the queue, and `SelectedTwice` and `SelectedUnique` make the
two selections the same. grab's records are sorted: `SortedRecordsProperties` says that the sorted list
has each record as often as the list before, and that no record comes after one it
precedes.

The categories are two steps further from the results: `StructuralComplete` and
`KeywordComplete` follow the rows of each file through the nested loops, the sort and
the filter.

* A result of a file that failed has no rows (`EntryOK`), so that only the versions that
  stood still put anything into a list of files that stood still.
* The rows of one file stand for its nodes one to one: in a structural category for
  all of its kind (`FlatPairing`), in the pool of names for the declarations that have
  one (`PoolPairing`, `FilePoolPairing`), since the pool drops rows without a name,
  and with them the keyword tokens and anonymous declarations.
* `FileByFile` joins the pairings of the files to one of all rows: no file has two
  results (`ResultsAtEnd`), so that no two rows stand for one node.
* Rows that are equal cannot be told apart, and there are such: an anonymous `def`
  and its token are on one line, and neither has a name. `CategoriesComplete` therefore
  counts: `PairingCount` turns a pairing into "each row as often as it is due", and
  `SortedShows` says that sorting keeps that and puts the keys in order.

What a filter, a sort and a nested loop return is proved once, in `SequenceLemmas`:
`ArrangedOnce` and `ArrangedUnique` say that there is one sequence that has each element
of a finite set once and in a given total order, and that it is `Arranged`;
`SortedByProperties`, `ConcatenatedPairing` and `SelectedFromSorted` rest on them.
`ConcatenatedAt` says which place of which sequence a place of a concatenation is; with
`Ahead`, the number of places before a sequence, it needs no recursion.

`EveryFileAccounted` and the theorems after it take the last step apart: nothing
changes after the report (`ReportIsLast`), so that they need to hold of `Finish` only.

### What stays with TLC, and why

* `WalkEnds`, `AllEnd`: liveness under fairness is out of the prover's reach.

## 6. What is not modelled, and why

* Report layout, progress output and error texts: no property is about them.
* `arch list` prints a constant and `arch scan` the listing that `verify`
  compares. The argument parser, the shell wrappers and the entry scripts keep no
  state; the values argparse lets through are the command lines of the models.
* Reading of the files one by one in `Dispatch` and `GrabCmd`: there a script or a
  grab takes the version of the tree when it lists it. What a change in the middle
  of that does to one inventory is the subject of `Inventory`.
* The groups of a grab payload and its header: which group a record is put in, its
  opcode and its mnemonic are searches for substrings and patterns in names, and
  the header counts what is in the groups. The same holds for the C++ patterns
  (`LLVMInitialize`, `RegisterTarget<`) and the summary counters of inventories,
  which are sums over the results.
* Directories that may not be read: `rglob` passes over them in silence.
* Names with `..` in `--merge` and `--combine-file`: an absolute name stands for
  all names that several architectures share. File systems that ignore case.
* `LLVM-Targets/` and `dependencies/`: input data and third-party code. They are
  nearly all of the lines of the repository and none of its behaviour.

## 7. Plan

1. done: `AstWalk`, `ArchBatch`, `OutputFile`, `Dispatch`, `ScrapeCmd`, `GrabCmd`,
   `SharedOutput`, `Inventory`, `Fields`, and the theorems above.
2. next: nothing is left to prove of the safety properties. What could still be
   modelled are the groups of a grab payload (see section 6).
