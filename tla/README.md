# Verification of codemcp

codemcp is an MCP server that gives a language model the run of a source tree
(files, commands, background processes, git, downloads) and, as
`codemcp agent`, a console that drives a model through the same tools. This
directory holds TLA+ modules of the parts of it in which goroutines, requests,
signals and failures meet, and of the algorithms that edit files; the TLC
configurations that check them on small instances; and proofs, checked by
TLAPS, of the properties that matter most. Line numbers are of the Go files at
the root of the repository.

To run a check: `tlc -config ServerLife.cfg MCServerLife.tla`; to check
a proof: `tlapm ServerLifeProofs.tla`. `PROJECT.json` lists every run,
the mutant each property catches, and the lines each definition stands for.

## 1. The system

The server is one process. Its transports (`http.go`, `stdio.go`, `tunnel.go`)
hand requests to `Server.Handle` (`server.go`), which re-reads the
configuration (`reload.go`) and calls a tool. Over HTTP every request is a
goroutine of its own, and tools share the workspace, the process registry, the
download links and the undo history. The agent is another program in the same
binary: a console, a client of the model's HTTP interface, and clients of MCP
servers, of which one may be in the same process.

| Component | State it keeps | Operations | What is hard | Correct when | Modelled in |
|---|---|---|---|---|---|
| Background processes (`process.go`, `tools_processes.go`) | registry map, exit fields under a lock, a channel closed at the end | start, get, stop, status, wait, evict, stopAll | a timer, a reaper, stop calls and the shutdown race over one process; children outlive the shell; the table is bounded | what is said to have ended has, the verdict is right and final, nothing running is forgotten, the timeout ends it | `ProcessRegistry` |
| Console and turn loop (`agent.go`) | history, queued lines, allowed tools, last prompt; channels `lines`, `signals` | repl, hot commands, continueTurn, permit, executeTool, interruptible, notifications, /retry, /clear, /compress | one channel with four kinds of sender and three of receiver; Ctrl-C and the wall clock at any point; end of input | one reader, no line lost or reordered, a history the model accepts, a cancelled turn returns | `AgentConsole` |
| Model's reads in the conversation (`agent_read_tracking.go`) | the history | nudgeStaleReads, invalidateReadsAfterWrite, saved sessions | calls that fail after writing, equal ids, different spellings, results cut short | no text of a changed file passes for current | `ReadTracking` |
| Model client (`agent_llm.go`) | the model and dialect found | detect, complete, stream, retry | five dialects; an idle timer against growing pauses; a service that restarts, stalls or cuts a stream | nothing of the conversation is lost or reordered, a reply, whole or streamed, is read to what was sent, it ends, and gives up for a reason | `WireFormats`, `ModelClient` |
| MCP client (`agent_mcp.go`, `stdio.go`) | child process, pipes, next id; or a session | connect, call, cancel, close | the reader goroutine of a cancelled call goes on; the server talks unasked, dies, pages its list | each call gets its own reply, nothing is left behind | `McpClient` |
| Download links (`downloads.go`) | links, their listener | Add, Revoke, List, lookup, Close, janitor | calls race to open the listener, and Close with them; a cap, expiry | a live link serves, an ended one does not, no listener is left | `DownloadLinks` |
| Listeners, tunnel, start (`main.go`, `http.go`, `tunnel.go`, `stdio.go`) | contexts, result channels | ServeAll, ServeOne, Run, shutdown | one fails, all must stop; results arrive in any order | no half of the server stays up, the exit tells a failure | `Listeners` |
| Self-update (`update.go`) | two files and a staged one | replaceExecutable | a crash or failure between any two steps; images that are running | the binary is never lost | `SelfUpdate` |
| HTTP endpoint and legacy sessions (`http.go`, `compat.go`) | session map, tombstones, two copies of a setting | handle, resolveVersion, Create, Get, Delete, Adopt, evict | look-up and recovery are two critical sections; timeouts; restarts; reloads | an ended session stays ended, an active one stays, versions do not change | `HttpSessions` |
| File changes and rollback (`history.go`, `workspace.go`, `tools_edit.go`, `tools_diff.go`, ...) | the tree, up to n earlier states per file | Record, Pop, SetDepth; every writing tool | nothing but the history has a lock; batches fail half way; one file under two names | rollback restores what was replaced, a refusal writes nothing, a batch does not overwrite itself | `FileChanges` |
| Unified diffs (`diff.go`, `tools_diff.go`) | the parser's and the plan's | parseUnifiedDiff, applyHunks, planDiff, applyDiff | headers whose counts and numbers are wrong, missing or in any order; lines that look like headers; places that look alike | a patch lands as its author meant or is refused | `UnifiedDiff` |
| Line and anchor edits, line endings (`tools_code.go`, `tools_edit.go`, `tools_line_endings.go`, `workspace.go`) | - | read_file, edit_lines, insert_text, edit_file, write_file, fix_line_endings | CR, LF and CRLF in one file; final newlines; a file that changed since it was read | what is read back is what was asked for, in one convention | `TextEdits` |
| Path resolution and lookup by name (`workspace.go`, `paths.go`) | the history's keys | Resolve, ResolveForRead, Rel, historyKey | links, `..`, rooted paths, a root named through a link, names that occur twice | the file acted on, the name reported and the history kept are of one file | `PathLookup` |
| Server core and reload (`server.go`, `reload.go`, `unavailable.go`, `config.go`, and of `openapi.go` what a reload reaches) | configuration, tool table, reasons, instructions, sudo agent, two locks | Refresh, applyConfig, registerAll, markUnavailableTools; callTool, serveTool, listTools | a reload replaces everything under requests in progress, one tool at a time; locks inside locks | an edit reaches the next call; what a call is told was so while it ran; a failed reload changes nothing; every request is answered | `ConfigReload` |
| Sudo agent, commands (`sudo.go`, `exec.go`, `tools_commands.go`) | a shim directory | new, Close, runCommand | the shim is removed under running commands | the shim outlives its users, no other is left behind | `ConfigReload`, but for runCommand |
| Search, outlines, Markdown reflow, git, GitHub, issues, database, OpenAPI client, statistics, prompts, resources, sanitising, Windows process control | none of their own | read, convert, or run one command or request | - | - | not modelled, see below |

The components meet at six places: `Server.Handle` serves every transport;
the console starts background processes and hears of their end
(`ProcessRegistry` ends a process, `AgentConsole` has `ProcessEnds`); the
console asks the model client for a reply (`AgentConsole` has
`ModelReturns`, which `ModelClient` shows to come) and the MCP client for a
tool's result; a reload (`ConfigReload`) reaches the sessions
(`HttpSessions.Edit`) and the history (`FileChanges.SetDepth`); the writing
tools feed the history, and the paths they are given are what `ReadTracking`
drops from the conversation; and `McpClient` is composed with the loop of
`stdio.go` that it talks to.

`PROJECT.json` "hazards" lists what is hard to test here, each at its line,
with the properties that would notice.

Not modelled, as having no state to go wrong between steps: the navigation and
search tools (they read the tree), Markdown reflow and output sanitising (pure
conversions; the write of the former is in `FileChanges`), git, GitHub, issues
and the OpenAPI client (one command or request per call), the database tools
(the pool is a library's), system information and statistics, prompts and
resources. Of `config.go` the parsing and validation of each value, and of
`process.go` the Windows branch, are left out too.

## 2. Modules

| Module | Models | Extends |
|---|---|---|
| `ProcessTable` | abstract: a process begins, enters the table, ends once with one verdict; only the ended are forgotten | |
| `ProcessRegistry` | `process.go`, `process_unix.go`, `tools_processes.go` | |
| `MCProcessRegistry` | the bound of the run | `ProcessRegistry` |
| `AgentConsole` | `agent.go`: repl to interruptible | |
| `MCAgentConsole` | the two sessions of the run | `AgentConsole` |
| `AgentConsoleProofs` | the theorems on the console, and how lines and the conversation move | `AgentConsole`, `TLAPS` |
| `ReadTracking` | `agent_read_tracking.go` | |
| `HttpSessions` | `http.go`, `compat.go`, the version checks of `server.go` | |
| `MCReadTracking`, `MCHttpSessions`, `MCRemembered` | instances of the two; both in one run | each other |
| `RememberedProofs` | the theorems on reads and notes, and on sessions | the two, `TLAPS` |
| `WireFormats` | the dialects of `agent_llm.go`: requests, replies, streams | |
| `ModelClient` | detection, completion, retry, timer of `agent_llm.go` | `WireFormats` |
| `MCModelClient` | a conversation and four replies, the arguments that are JSON | `ModelClient` |
| `SequenceLemmas` | induction over the numbers, recursive functions, FlattenSeq, beginnings of sequences | `TLAPS` |
| `ModelClientProofs` | the theorems on completions, /retry, requests and replies | `ModelClient`, `SequenceLemmas` |
| `McpClient` | `agent_mcp.go`, the loop of `stdio.go` | |
| `McpClientProofs` | the theorems on the MCP client | `McpClient`, `TLAPS` |
| `DownloadLinks`, `Listeners`, `SelfUpdate` | `downloads.go`; `main.go`, ServeAll and ServeOne; `update.go` | |
| `MCServerLife` | processes and the three in one run, and their fairness | `MCProcessRegistry`, the three |
| `ServerLifeProofs` | the theorems on processes and the three; `ProcessRegistry` implements `ProcessTable` | `ProcessRegistry`, the three, `TLAPS` |
| `FileChanges` | `history.go`, `Workspace.WriteFile` and its callers | |
| `UnifiedDiff` | `diff.go`, `tools_diff.go` | |
| `TextEdits` | of `tools_code.go`, `tools_edit.go`, `tools_line_endings.go`, `workspace.go` what handles text | |
| `PathLookup` | of `workspace.go`, `paths.go`, `history.go` what handles paths | |
| `MCFileChanges`, `MCPatches`, `MCTexts`, `MCPaths`, `MCFileTools` | instances of the four; all four in one run | each other |
| `FileChangesProofs` | the theorems on files, line endings and paths | `FileChanges`, `TextEdits`, `PathLookup`, `SequenceLemmas` |
| `ConfigReload` | `reload.go`, `server.go` from applyConfig to listTools, `sudo.go`, and of `unavailable.go`, `openapi.go`, `config.go` what takes part | |
| `MCConfigReload` | two configurations, two tools | `ConfigReload` |
| `MCRequests` | the MCP client and the reload in one run | `McpClient`, `MCConfigReload` |
| `ConfigReloadProofs` | the theorems on reloads and the invariant they rest on | `ConfigReload`, `TLAPS` |

Where modules share no state, one run holds several: `part` says which of them
runs, and the others rest in one of their initial states.

### ProcessRegistry

One action per critical section or blocking call. `run_process` is `Launch`
(cmd.Start) and `Register` (the map, the eviction and `go p.wait()`);
`check_process_id` is `Lookup` and `Answer`; `stop_process` is `Lookup`,
`StopMark` (the locked part of stop), `StopKill` (the signal, without the lock)
and `Answer`. The goroutine of `wait` is `Reap`, `WaitReturns`, `TimerFires`,
`TimeoutKill`, `Settle`, `CloseDone`. The shell and what it left in the
background (`leader`, `child`) end when they please. `killProcessTree` finds
the group through the leader's pid, so it reaches nothing once the leader is
reaped.

Abstractions: processes are numbered in the order their handlers took
`p.started`, by which eviction calls one older than another. A descendant that leaves
the process group (setsid) is outside the model, as are the text of the
output, its bounded buffer, `list_processes`, which only reads, and the
Windows branch. That an id the kernel has given out again may be signalled is
left out: the model signals nobody once the leader is reaped.

### AgentConsole

`main` is where the main goroutine is: at the prompt, waiting for the model,
stopping the watcher, handling calls, asking permission, running a tool, in
/compress or /stats. `readInput` is `Type`, `EndOfInput`, `Offers`,
`ReadInputCloses`; the watcher is `WatcherReceives`, `WatcherSeesClosed`,
`WatcherStops`, with `Enqueue` for what is not a hot command; `interruptible`'s
goroutine is `EarCatchesSignal`; `watchForProcessCompletion` is `ProcessEnds`,
then any receive from `a.lines`, or `NoteSendPanics` once it is closed. A line
is its kind and its number; a message of the history is its role and, for a
tool result, which call it answers and how.

Left out: the one-shot `-p` mode, session and summary files, /reload, /connect,
/model and the list of tools allowed from the start. /stats run as a hot
command listens for Ctrl-C too; it shares `signals` with the turn in the model
as in the code. Lines typed ahead may answer a question that comes later; that
is the code's behaviour, and only the notification doing so contradicts a
comment.

### ReadTracking

A file is a sequence of versions, and a read's result is the versions it saw
(`Held`). A round is `ModelCalls`, then each call in order: `Read` (which
fails, is cut short or holds) with `NudgeStaleReads`, `Write` and
`WriteFailsPartWay` with `InvalidateReadsAfterWrite`, or `NotRun`. Around
them: `ChangedElsewhere`, `Clear`, `SaveSession`, `LoadSession`. Ids are the
model server's choice and need not be unique: `FindToolResult` takes the
first, as the code does.

The agent goes by names, not files. `Canonical` is what the workspace calls a
path as spelled, and `Reached` the files a tool given that name may act on:
with exact_path_not_required the one file called so elsewhere, of which the
agent does not hear. A call's reads and writes are of `Reached`, its notes and
invalidations of names.

`told` is a history variable: for each name, the version of each file after the
last write that was given the name, changed the file and was told to have
succeeded. A stale read is one older than that. Limits of the code that the properties therefore except: with equal ids
(`Unambiguous`), the first result is the one that is noted or pointed at; an entry of
read_files that failed still supersedes an older read; a session that is loaded
brings its old reads back; and format_markdown, and a batch that fails part
way, are not told of, so the reads of what they wrote stay.

### WireFormats and ModelClient

`WireFormats` has no state: `Messages` puts the agent's history into each
dialect (`OpenAIMessages`, `AnthropicMessages`, `ResponsesInput`,
`OllamaMessages`, `CompletionPrompt`), `ParseFullReply` reads a whole reply,
`ReadEvent` and `Assembled` a stream, block by block and piece by piece.
`ModelClient` is one completion after another: `Prompt` or `Retry`, `ListModels`
and `Probe` for the detection, `Send`, `Answer` or a failure, `ReadPiece` and
`StreamEnds`, `PauseEnds` between attempts, `Tick` with `AttemptTimesOut` for
the idle timer, `Interrupt`. The service restarts with another model and
dialect (`Restart`), refuses, is busy, stalls, or breaks a stream.

Abstractions: URLs, headers, token counts and the system prompt; the several
URLs of a dialect are one route; a text is a sequence of pieces, `<<>>` when it
is blank, and so are the arguments of a call, of which `JSON` and `Objects` say
which are JSON and an object. A fragment, or a string, of JSON is one text or
another: that a value may itself be a string holding JSON, or null, is not
followed further.

What a dialect does to a conversation is `Told`: `ArgsObject` puts `{}` for
arguments that are no object (Anthropic, Ollama), `ArgsString` only for none
(the others), and a blank result is "(empty)" in Anthropic's. What it does to a
reply: `RawArguments` puts `{}` for no arguments and for a string that holds no
JSON, which a whole reply of OpenAI's and Responses' has and a stream's fragments
are not; `Lines` joins Anthropic's and Responses' blocks of a whole reply with
`NewLine` where a stream runs them together, and marks a redacted thought, which
a stream leaves out. `Carries` is what a dialect can send: only where arguments
come as a string or in fragments may they be anything but JSON. A call that the
output limit cut short is the last block of its reply. In the legacy dialect a
call is a fenced block of the text: at the limit the fence of the last is open,
so it is text (`Open`); in a closed one the arguments stand in braces, and if they
are no JSON the call is lost with its block (`Fenced`).

An answer of status 2xx that is JSON but no reply ends the completion at once
(`Unparsed`): parseFullReply comes after the retries. `Unparsed` is of any
dialect; which bodies each of them refuses is not told apart. One that is not
JSON at all fails its attempt, and is asked for again.

The code's own limits that the model keeps: a stream that is cut before the first
piece of a call's arguments yields a call with `{}`; the pauses between attempts
are charged to the idle timer (agent_llm.go:503), which the defaults (30 s
against 600 s) make rare.

### McpClient

The agent's goroutine is `phase`: `Connect`, `Close`, `Start`, `Write`,
`Receive`, `Notify`, `CallTool`, `Cancel`, `Quit`, and over HTTP `Post` and
`Forget`. Every request over stdio has its reader goroutine: `Loop` evaluates
`c.stdout`, `ReadLine` takes a line of that pipe, `Handle` delivers it or
declines it, `ReadFails` when the pipe is gone. At the other end `ServeLine` is
`stdio.go`'s loop; other servers `Speak` unasked; any may `Die`.

Abstractions: a result is a reply or an error; a writer blocked on a full pipe;
standard error, for whose holder Wait also waits. The code's limits the model
keeps: a cancelled stdio call kills the server while `connected` stays true, so
the calls that follow fail until /connect; a tool's call over stdio has no
timeout; a session that the server has forgotten is not opened anew.

### DownloadLinks, Listeners, SelfUpdate

`DownloadLinks`: a call of get_download_link is `AddBegins`, `OpenSocket` (no
lock is held), `Install` or `GiveUpSocket`, `Mint`, `Insert`; Close is
`CloseLocks`, `CloseShutsDown`, `CloseReturns`; `ServeTakesOver` is the
goroutine that starts to serve a socket, which may come after Shutdown; `Fetch`
and `FetchEnds` are a browser's; `JanitorTick`, `RevokeLink`, `ListLinks` the
rest. The stdio transport serves one request at a time, so that calls race here
is the type's own contract and not something the program does today. Left out:
which file a link is for, the formatting of URLs.

`Listeners`: the contexts are three flags; each ServeOne is `ListenOn`,
`ServeBegins`, `ShutDown`, `ServeReturns`; ServeAll is `ServeAllTakes` and
`ServeAllReturns`; the tunnel is `TunnelEnds`; run is `MainTakesHalf`,
`BothHeard`, `MainGoes`. Serve returns at once when Shutdown is called, so the
grace of five seconds is not waited for. A stdio server that waits for input
sees a signal only with the next line (main.go:284).

`SelfUpdate`: one action per call on the file system, each of which may fail,
with a stop of the process between any two, and a process that goes on running the old image,
which Windows will not let be removed. Two updates at once are left out, and so is what a
stop of the machine leaves: the staged file is not synced before it is renamed.

### FileChanges

Text is the set of changes it carries: change i of call n is `<<n, i>>`. A
call is a program, one operation after another: `StageChange` (edit_file,
multi_edit, remove_sections, edit_lines, insert_text, replace_in_files,
format_markdown, a section of apply_diff), `StageSet` (write_file,
download_file), `StageCreate`, `StageDelete`, `StageRename` (apply_diff),
`StageConvert` (fix_line_endings, which writes each file before it reads the
next), `Pop` (rollback). Then each staged write is `Record`, and `Truncate`
with `Fill` (os.WriteFile empties a file before it fills it), `Replace`
(a rename), `Unmake` or `Delete`. `Refuse` ends a call before its first write,
`Fail` in the middle, `Finish` when all is done. Meanwhile `SetDepth` (a
reload) and `Outside` (a command, an editor). Files are found by `FileOf`, and
apply_diff's plan by `PlanKey`, as `Canonical` and `planKey` do. `Sensible` says
which operations a call of each tool has; `OneKey`, that the key tells files
apart, which planKey does for some spellings and not for others.

Abstractions: resolving or correcting a path, matching an anchor or a hunk and
the size and binary checks are the choice between staging and `Refuse`; the
three modules below are about those. Record may find a file unreadable only for
a tool that has not just read it. A restart resets every variable (README.md:407:
history does not survive it), so it is not an action. `wrote`, `undo`, `clean`
and `events` are history variables and bounds which no action of the code reads:
`undo` is worked out from the disk at the moment of the write, never from
`history`.

### UnifiedDiff

apply_diff, a step at a time: the parser's actions follow parseUnifiedDiff line
by line (section, hunk and rename state are variables, `Flushed` is flush), then
planDiff takes one section per step and applyHunks one hunk per step into
`draft`, the running `picture` is what earlier sections made of a file, and the
last step writes the plan, or refuses and writes nothing.

A line of a diff is a record that names what it starts with, a line of a file
the sequence of its words; a line that starts with `--` or `++` after its mark
can therefore be mistaken for a header, as in the code. Reading a number or a
path out of a header, and the wording of refusals, are abstracted.
`MCPatches` is the author: a script says which lines of a file are kept, dropped
and added; a patch is the script cut into hunks, in one of the styles patches
come in (exact, counts that are one off, line numbers that are late or all 1, a
file that has grown since, hunks listed backwards or in sections of their own),
and `Sure` says when an author may count on it.

### TextEdits

A file is the sequence of its characters, of which CR, LF, NUL and letters are
told apart. A client reads (`ReadFileRange`), the file changes or a reload
changes the convention (`ChangedOutside`), and the client edits: `EditLines`
with or without `expected_text`, `InsertAtLine`, `InsertAtAnchor`, `EditFile`
with its fallback of folded endings and `replace_all`, `PutFile`,
`FixLineEndings` over a file, a folder or the tree, with its mask, limit and dry
run; each has its refusal. Conversions are functions over sequences:
`ToLineEnding`, `NormalizeToLF`, `DominantLineEnding`, `SplitLines`,
`LineOffsets`. Files are small enough to read and none is excluded.

### PathLookup

A path is the sequence of its names from the root of the file system; a tree
has directories, links to directories and files. `Follow` is what the operating
system does, `Clean` what filepath.Clean does to the words alone; `Resolve`,
`ResolveNew`, `Reanchored`, `Rel`, `UniqueByName` and `ResolveForRead` are the
functions of that name. `WriteTool`, `EditTool` and `Rollback` call them as
write_file, edit_file and rollback do, and the history is kept under the key
each of them computed. Left out: patterns, the wording of suggestions, the bound
of maxSuggestionScan, letter case and drives of Windows, links that change or
lead to files or nowhere.

### HttpSessions

A request is a handler that goes through `resolveVersion`, `handle` and
`Handle`; each lock it takes is a step, so other handlers run between a missed
`Get` and `Adopt`, and between the version check of the transport and the one
behind the reload. The actions are named for the branches: `Initialize`,
`OnSession`, `Declared`, `Undeclared`, `Adopt`, `Teardown`, `NotAllowed`,
`Refuse`, `Dispatch`, `Handle`. Around them: `Edit` (config.json changes),
`Restart` (memory is lost, the configuration is read anew), `Tick`.

Abstractions: time is the age of each timestamp, cut off one past the timeout.
`Refuse` stands for every early answer before the store is touched
(authentication, origin, media type, a body that does not parse). Whether the
mirrored headers agree is a choice. The standalone stream is opened and then
left alone. The `Recovered`, `Client` and `Created` fields of a session say
nothing to the properties and are dropped; `session_recovery` is fixed for a
run of the server, as in the code.

### ConfigReload

A request is `Arrive`, then `Refresh` under `r.mu`: the file fails to load
(`RefreshFails`), loads as what was last applied (`RefreshUnchanged`), or as
something else (`RefreshBegins`). In the last case the same goroutine goes
through applyConfig: `NewSudoAgent` or `SudoAgentFails`, `ApplyConfig` (the one
critical section), `CloseOldAgent`, `SetInstructions`, then registerAll's
`Clear` and a `RegisterTool` for each tool, markUnavailableTools'
`MarkUnavailable` for each, and `ReloadEnds`. A call is `Lookup`, then
`TakeAgent` and `RunShell`, or `Exposes` and `Refuse`; a list is `ListTools` and
`ListToolsEnds`. A request of the REST face starts at `Lookup`: serveTool
(openapi.go:203) never refreshes. The operator's part is `Edit`: any other
content, none, or one that does not load.

`s.mu` is a `sync.RWMutex`. A critical section that calls nothing is one step,
guarded by `MayRead` or `MayWrite`; the one that does call something that
locks, listTools, keeps its name in `readers` between two steps.
`LockAnnounced` is the rule of the library that a waiting writer keeps new
readers out.

Abstractions: a configuration is a model value with the tools it registers,
those the REST face exposes, and whether it has a sudo agent; flags are applied
by the loader. What a handler was registered with is the configuration it
captured. Tools are registered in one order and each section's switched-off
names are the `Governed` ones; a user's command that is dropped has no reason
recorded. `Refuse` stands for unknownToolMessage too, which reads the table once
more for its wording. The REST face exists; `s.supports`, `openAPI()`,
`downloads()` and the workspace getters, which read one field under the lock,
are not steps of their own. Shim directories are numbered and numbers never used
again. `known`, `onDisk` and `valid` are history variables.

## 3. Runs

| Run | Module | Distinct states | Instance and why it is enough |
|---|---|---|---|
| `console` | `MCAgentConsole` | 346 180 | Two kinds of session. "lines": three typed lines, one notification, one Ctrl-C, a wall clock, two of the lines perhaps ahead of a turn and one inside it, which is what reordering takes. "turns": two lines of prompts and commands, one Ctrl-C, two rounds of up to two calls: a reply with a call answered, one being asked about and none; the second of two calls is one that is asked about. Fair. |
| `remembered` | `MCRemembered` | 1 557 828 | Reads: two files, one spelled in two ways, the other also found by its name alone, three calls of five kinds with three ids: two reads that overlap and a write. Sessions: two requests over one minted id (every race is of two over one), of which one at least is a call (`MeetsACall`: what a request loses by another is its session), timeout of one tick, one restart, any edits of the setting, with recovery and without. What a handler has replied, which no action or property reads, is left out of the state (`RememberedView`). |
| `model_client` | `MCModelClient` | 1 180 946 | Any of the five dialects, one restart, two completions, two retries, a timer of two ticks against pauses of one and two; a conversation with blank texts and a blank result, and one to two calls in a turn, with arguments that are an object, an array and no JSON; replies with a call that has no arguments, two calls whose pieces mix, one of them cut short, and texts and thoughts in several blocks, empty and redacted ones among them. Fair. |
| `requests` | `MCRequests` | 309 863 | MCP client: two processes (or sessions), five requests, two pages of tools, one cancellation and one line the server says unasked: the reader of a cancelled call, then a connection and a call of the next one. Five requests are a connection and two calls, or two connections, the second after a whole one and left alone at its end; over the list of its tools the server neither speaks nor ends of its own accord, as it may over every other request (`McpBound`). Reload: two requests, of which one at least is a call, the defaults and one other configuration, one tool each of them lacks, two edits. A reload and what it overtakes are two requests; two edits give a failure and a recovery, or a change and its opposite. The file may be broken where `--config` names it and gone where not, and the second edit comes when the first is applied or does not load, or in the middle of a reload (`Bound`). Fair: the bounds are on what nobody has to do. |
| `server_life` | `MCServerLife` | 74 173 | Processes: over the first one two calls at once, the timer and the reaper race in every way, and one call with the shutdown, which asks nothing of the calls; two calls are what an answer that changes needs (one is told, one stops). From the second launch on one client is left and nothing is stopped or timed out (`Bound`), and up to three processes share a table of two, so the third finds none, one or both others finished. Links: two calls at once, room for two, three links, the third of them, which has to make room, minted when at most one other call is at work (`LastLinkAlone`), a clock of one tick, in which the shorter of the two lifetimes ends. Listeners: two and the tunnel, in each mode. Update: three releases, so that one can fail over another's backup. Fair. |
| `file_changes` | `MCFileTools` | 411 694 | Calls: two handlers, three calls, two files, one under two names, depths 1 and 2, one reload or outside change. A rollback that races a write which follows an earlier write takes three calls; depth 1 makes trimming bite at the second; the last call is a rollback, which reads what the others left, and what comes from outside comes before it (`LastReads`, `LastComesAfter`). Patches: some 6 400 (scripts of up to three lines in one or two hunks, in nine styles; lines that look like headers; chosen patches over several files). Edits: every file of up to two characters of x, CR, LF and nine longer ones, three texts to put in, three to look for, lines 1 to 3. Paths: eight trees, twelve spellings, three calls or outside changes, the last of them one that looks a path up (`LastLooks`). |
| `mcp_reader`, `config_standstill`, `read_by_name`, `patch_drift`, `path_rollback`, `patch_spellings` | `McpClient`, `MCConfigReload`, `MCReadTracking`, `MCPatches`, `MCPaths`, `MCFileChanges` | - | counterexamples: in the instances above, but for `read_by_name` with one read and one write, and the last with one patch and one file of two names |

What the passing runs show:

- **Processes.** A process reported as ended has no shell and no writer left
  (`EndedMeansGone`); what a client was told of its end stays true, and the code
  is the process's own unless it was stopped or timed out before it ended
  (`AnswersTrue`); the timer bounds a process whose shell is still there when it
  fires (`BoundedLife`); the whole implements `ProcessTable`, which forgets the
  finished only (`TableSpec`).
- **Console.** Order and completeness of what is typed (`TypedKept`); every call
  of the model followed by its result however the turn ended
  (`HistoryWellFormed`); /retry asks once (`RetryAsksOnce`); one reader of
  `a.lines` at a time, and a history changed by the main goroutine only while no
  watcher runs (`WatcherConfined`); a cancelled turn gives the prompt back and a
  finished process's message leaves its goroutine (`NothingHangs`).
- **What is remembered.** No read in the conversation is older than a write
  under the name it was read by whose success it was told of
  (`NoReadOlderThanAWrite`); a file found by its name alone is the exception that
  `read_by_name` shows. A note that a read was
  repeated points to one that was, however results were cut short
  (`StaleNotesPointSomewhere`). No recovery undoes a DELETE within the timeout,
  until a restart (`TeardownKept`); a session in use is never dropped
  (`ActiveStays`); two recoveries of one id agree on its version
  (`VersionKept`).
- **Model client.** Every request carries each text, call and result of the
  conversation, in order, in the dialect of the moment, and of the arguments and
  results only those are put in another way that the dialect cannot take
  (`RequestsKeepTheConversation`); a reply, whole or streamed in whatever pieces,
  is read to the texts, thoughts and calls that were sent, and what was shown is
  its text (`StreamedReplyFaithful`). The two differ in the new lines between
  blocks, the mark of a redacted one, and the arguments of a call cut short,
  which the property says. An error comes only after the retries, a refusal, a
  broken stream, an interruption, or an answer that cannot be parsed, which is
  not asked for again, and the timer ends an attempt only after
  that much silence (`GivesUpForAReason`); after /retry the request asks for a
  model the service has, in its dialect or the configured one
  (`RetryLooksAgain`); every completion ends
  (`CompletionEnds`).
- **MCP client.** The answer a call gets is the answer to its own request, of the
  process it was sent to (`AnswersTheCall`); one process at most is running and
  none is left at the end, and no session but its own (`NothingLeftBehind`);
  connections end, and calls do unless the server never answers or a left reader
  takes the answer (`CallEnds`).
- **Life of the server.** Never more links than the cap, room is made by dropping
  the one that ends soonest, and no fetch begins on a link that has ended
  (`LinksBounded`); after Close no listener stays, whichever call was opening
  one, and expired links go by themselves (`LinksAndSocketsGo`); once one half
  fails the program ends and binds nothing (`HalfUpNeverStays`); its exit is an
  error exactly when a half failed (`ExitTellsFailure`); wherever the
  process of an update stops, a whole binary is under its name or under exe.old (`BinaryNeverLost`).
- **Files.** Between writes the history of a file is exactly what its tracked
  writes replaced (`HistoryIsUndo`), so an edit from a stale reading loses
  nothing that rollback cannot restore; rollback restores the newest
  (`RollbackUndoes`); refusals and dry runs write nothing (`RefusedUntouched`);
  changes of one batch do not overwrite each other (`EditsLand`), where the
  plan's key tells files apart (`OneKey`: here `a.go`, `./a.go` and `b.go`).
  `HistoryIsUndo` and `RollbackUndoes` except a file in which another write fell
  between a call's Record (or Pop) and its write: the code has no lock over the
  two and promises nothing there.
- **Patches.** A patch that its author may count on is applied and leaves what he
  meant; a malformed one is refused; any other changes only what its hunks show,
  in one of the places where they fit (`PatchLands`).
- **Edits.** What read_file shows after a line edit is what it showed before with
  the named lines replaced, or the call was refused and nothing changed; one
  that quotes its lines replaces those (`EditReadsBack`). No call leaves a file
  with two conventions that had one (`OneConvention`). Where line endings are
  preserved, that excepts files, texts and anchors with a CR that is not half of a
  CRLF: edit_lines puts a line that ends in such a CR into an LF file as it is, and
  with the LF after it that makes a CRLF.
- **Paths.** The name reported leads back to the file; a call acts on the file
  its path spells, or says that it did not; a file has one history whatever
  spellings its writes went by, if none created it through a link
  (`OneFileOneName`).
- **Reload.** Between reloads, all that is rebuilt is of the configuration in
  effect, one shim directory exists at most, and no default slips in when the
  path was given (`OneInEffect`); a call over MCP is served under what the file
  has held since it arrived (`NextCallSeesEdit`); what a call or a list is told
  was so under a configuration in effect while it ran, and only a reload that
  goes on meanwhile makes a tool vanish or a list short (`ToldTrue`); the same
  holds of the directory a command has on its PATH (`ShimThere`). The window in
  registerAll is therefore open only under a request that overlaps a reload of
  another one. A request gets its answer unless its own command does not end or
  the standstill below keeps it from it (`AnsweredOrStuck`). A command may run
  past its timeout, or for ever: `exec.go` waits for whoever still holds its
  pipes, and kills the shell alone. It holds no lock, so nobody else waits for it.

What the others show, each against a sentence of the repository (quoted in
`PROJECT.json` "findings"):

1. The reader goroutine of a cancelled MCP call evaluates `c.stdout` for every
   line: it is nil by then, and the agent panics; or it is a new process's pipe,
   and the reader takes that one's lines (`LeftReaderKeepsItsPipe`).
2. tools/list takes `s.mu` for reading twice, one inside the other. A reload
   that asks for the lock in between waits for the lister, which waits for it:
   no request is answered any more (`RequestsAnswered`).
3. applyHunks adds the lines that earlier hunks gained to a line number of the
   old file, and looks there in the old file: among lines that look alike, an
   exact patch changes the wrong one (`NamedLineIsChosen`).
4. A file created through a linked directory, or in a workspace whose root is
   spelled through a link, is recorded under the path as spelled and looked up
   under the real one: rollback does not remove it (`CreationUndone`).
5. planKey takes `a.go` and `/a.go` (or `sub/../a.go`, or a path through a link)
   for two files: of two sections of a patch that spell one file so, the second
   is matched against the disk and written over the first (`EditsLand`, without
   `OneKey`; found when its proof would not go through).
6. With exact_path_not_required a write tool acts on the one file of a name
   elsewhere, and the agent invalidates the reads of the path as it was given:
   the read of the file itself stays, older than a write that succeeded
   (`NothingOlderWhateverIsNamed`).

Seen while modelling and not made a run. Processes and console:

- a shell that leaves a descendant behind and ends is reaped at once; the
  timeout's kill then finds no group (process_unix.go:29), and the process stays
  "running" past the timeout that tools_processes.go:72 promises;
- the message that a background process has ended may be sent on a closed
  channel, which panics (agent.go:1957, against the comment at 1930), or be taken
  as the answer to a permission question (agent.go:1932-1934);
- a second Ctrl-C of a turn, or one as it ends, quits the console at the next
  prompt (agent.go:1434-1436 says it never does);
- read_notes is tracked as a read although no write invalidates it
  (agent_read_tracking.go:210, 138).

Server:

- after a reload with `legacy_compatibility` off, `initialize` still mints
  sessions whose every request is refused (http.go:429, README.md:960);
- the tombstones of ended sessions are in memory, so a restart lets recovery
  bring one back (README.md:952 says it stays ended);
- a `config.json` at its default place that is deleted loads as the defaults,
  which are then applied (README.md:561 says the values in effect stay);
- the REST face does not re-read the file (README.md:637 says it does), and a
  reload changes its token but not the MCP endpoint's (README.md:567);
- a lifetime of a link that is too long is refused (downloads.go:475), and
  README.md:883 says clamped; a server attached to its transport starts no
  janitor, so its expired links go only with the next call;
- a request in progress at the end may start a process after stopAll has looked
  (main.go:333, README.md:252);
- update.go calls the rename atomic on Unix, but the name is empty between the
  two renames.

Files:

- apply_diff deletes a file without telling the history, so rollback cannot
  bring it back (tools_diff.go:134, README.md:405);
- a section that renames a file to another spelling of itself plans a write and
  a deletion of it (planKey again);
- apply_diff on a CRLF file of a workspace that preserves endings writes it as LF
  (splitLines and joinLines, against README.md:525 and
  diff_robustness_test.go:395);
- a section that only renames is dropped, although tools_diff.go:47 says renames
  are handled; a section that deletes deletes the whole file, whatever its hunks
  cover;
- counts that are too small and a blank context line that lost its space end a
  hunk early, silently; the `-- ` of a mailed patch after a whole hunk is read as
  a removal; a removed `-- x` before an added `++ y` reads as a header;
- "exactly once" (README.md:385) counts matches that do not overlap
  (tools_edit.go:168); an anchor of one line that matches as it is, replaced by
  several, leaves a CRLF file with two conventions;
- fix_line_endings does not fold a lone CR, turns `\r\r\n` into `\r\n` and would
  change it again, and does not name the files it excluded (README.md:543);
- the comment at workspace.go:140-145 says `../README.md` gets the README at the
  top, which the code refuses; a root that is itself a link is not walked, so
  lookup by name finds nothing there; beyond 20 000 files UniqueByName may call a
  name unique that is not.

### Fairness

Goroutines that can go on do, and nothing is assumed of users, models, clients,
the operator, signals, failures or the arrival of requests. In particular:
`console` adds that a model request returns once its context is done (net/http
does; `CompletionEnds` is that side of it). `model_client` assumes that the
client goes on and that time passes (`Tick`); the service need not answer. What it
sends is a reply, with an end: a stream of lines that are no events, which arms
the idle timer for ever, is not in the model, and would have no end in the code.
`requests` and `mcp_reader` assume the agent, its readers, the 45 seconds of
/connect, that `stdio.go`'s loop serves, and that a killed process dies.
`server_life` assumes
the goroutines the code starts (that of `wait`, with its timer, among them) and
the janitor's ticker, that a call which has begun is carried through and stopAll
runs once it has begun, that the tunnel's client returns once its context is
done, and nothing of the clock.
`requests` and `config_standstill` assume that a goroutine that is not blocked
goes on (weak), which says nothing of the command it runs (`Proceed`), and that
one which keeps asking for `r.mu` gets it (strong, for `Refresh`): a `sync.Mutex` that has kept a goroutine waiting for a
millisecond is handed to it. `remembered`, `read_by_name`, `file_changes`, `patch_drift`,
`path_rollback` and `patch_spellings` state none.

### Bounds

`MaxStarts`, `MaxIds`, `MaxBoots`, `MaxTyped`, `MaxNotes`, `MaxSignals`,
`MaxCalls` (in each module of its own kind of call), `MaxVersion`, `MaxEvents`,
`MaxEdits`, `MaxAsks`, `MaxRestarts`, `MaxPages`, `MaxSpeaks`, `MaxCancels`,
`MaxToken`, `MaxTime`, `MaxReleases`, `MaxLine` and `MaxLookups` bound what the
environment does, and each is a guard of the action it bounds. `MaxProcesses`,
`MaxTurns`, `MaxLinks`, `RetryLimit`, `BackoffLimit`, `Idle`, `TTL`, `Depths` and
`Kept` are parameters of the program, set small. Some runs restrict the next
state further, as the table says: `server_life` and `console` by `Bound`,
`requests` by `McpBound` and `Bound`, `remembered` by `MeetsACall`,
`file_changes` by `LastReads`; where a run is under fairness, the restriction takes away only what
the environment would do. Deadlock is off where the program stops or its bounded
input ends.

## 4. Proofs

Every theorem is for all values of the constants the assumptions allow: any
number of processes, clients, handlers, ids, files and calls.

| Module | Theorems | Assumptions |
|---|---|---|
| `AgentConsoleProofs` | `WatcherIsConfined`, `NoLineLost`, `EveryCallAnswered`, `AsksOnce` | `ConsoleAssumption` |
| `RememberedProofs` | `NothingOlderIsShown`, `NotesAreTrue`; `TypeCorrect`, `TombstonesStand`, `TeardownStands`, `ActiveSessionsStay`, `VersionsStay` | `TrackingAssumption`; `SessionAssumption` |
| `ModelClientProofs` | `LooksAgain`, `GivesUpLate`; `RequestsAreFaithful`, `StreamsAreFaithful` | `ClientAssumption`; for the last two also `ConversationAssumption` (`ArgumentsAssumption` is for the reader and TLC: no proof needs it) |
| `McpClientProofs` | `AnswerIsTheCallsOwn`, `NothingIsLeft` | `McpAssumption` |
| `ServerLifeProofs` | `TypeCorrect`, `EndedIsGone`, `AnswersAreFinal`, `VerdictIsTrue`, `AnswersAreTrue`, `EvictionIsSound`, `RegistryImplementsTable`; `LinksStayBounded`, `TheExitTells`, `NoUpdateLosesTheBinary` | `ProcessAssumption`, `NoProcAssumption`; `DownloadAssumption`, `PortsAssumption`, `ReleasesAssumption` |
| `FileChangesProofs` | `TypeCorrect`, `HistoryIsTrue`, `RollbackIsTrue`, `RefusalsWriteNothing`; `BatchesLand`; `OneConventionStays`; `OneNameOneFile` | `FilesAssumption`; for `BatchesLand` also `OneKey`, `RenamesMove`; `TextsAssumption`; `SitesAssumption` |
| `ConfigReloadProofs` | `TypeCorrect`, `OneConfigurationInEffect`, `EditsReachTheNextCall`, `RequestsAreToldTrue`, `ShimsStayForCommands` | `ConfigAssumption` |

- **Processes.** None of the invariants is inductive alone. `Phases` ties each
  state of the `wait` goroutine to the fields and to the shell: a process
  numbered past `launched` has no shell, one with no shell has no goroutine,
  `ended` and later imply that `cmd.Wait` has returned, `exited` is set exactly
  in `settled` and `closed`, and then the exit code is the one the end called
  for. `Starts` says that a call in its start phase has a shell of its own and
  no goroutine yet, without which Register could enter one twice.
  `FinalAnswers` follows from `EndedIsFinal`: no action changes the fields of
  an exited process; with `VerdictTrue` it makes `AnswersTrue`. Eviction is about
  cardinalities: `Evicted` takes the oldest finished ones, and the library's
  facts on finite sets give the bound. The refinement maps `life` from `launched`
  and `exited`: `Launch` is `Begin`, `Register` is `Enter`, `Settle` is `End`,
  everything else stutters.
- **Console.** `SingleReader` is inductive as it stands: the watcher is on only
  while the main goroutine is in a model call or stopping it, and each of the
  two moves keeps its half. `WatcherIsConfined` adds that the actions which write
  `history` are those of the main goroutine outside those states.
  That no line is lost needs more: that each place has its lines in the order
  they were typed and before those of the places behind it (`Ordered`), that a
  notification is queued once (`QueuedOnce`), and that what the conversation
  has of a line was received and waits nowhere (`Received`). A step moves lines
  in one of six ways (`LineMove`) and writes the history in one of five
  (`HistoryMove`). `Answering` ties the place the turn is at among its calls to
  the end of the history, so that a call is answered once and in its turn.
- **Reads.** A rewrite looks at the whole conversation each time. The proof says
  what any rewrite may do (`Rewritten`: a result becomes a note about one of the
  calls with its id, nothing else changes) and what it must (`Thorough`: none
  that qualifies is left). `HeldWasAsked`, that a result still holding text
  belongs to a call of its id, and that `told` is never ahead of `version`
  carry these over the rounds. The proof showed a proviso the runs had not:
  where the server gives two calls one id, a note may point at a result that
  another call's failure took the place of, so the property asks for an id of
  its own of the later read as well as of the noted one (four calls are needed
  to see it; the run has fewer).
- **MCP client.** `Pipes` has every request and every answer in a pipe of the
  process it was sent to, and while a call waits the lines with its number in
  the pipes of the process in use, so what is delivered to it is its own.
  `Steps` counts the numbers left for the pages still to come. `OneProcess` and
  `OneSession` say which process runs and which session is the client's own in
  each phase, and that there is none in the others.
- **Model client.** `Detected` says that what was found is the service's until
  it restarts, `Found` that a request is made only when nothing is left to find.
  `TimedFromSilence`: while an attempt is waited for, or its body has begun to
  come, what the timer has left and the silence make up the whole time. (Between
  the headers and the first byte the timer still counts from the request, which
  the property excepts.) `RetryLooksAgain` was too strong as first written: with
  a dialect in the configuration the client does not ask the service for it, and
  a service that comes back in another is asked in the configured one.
  `RequestsAreFaithful` is about conversations of any length. The induction
  theorems of the library cannot be instantiated here, so `Induction` (from
  `WFMin`) and `Recursion`, that a recursive function over 0..n has the values
  its step gives, are proved with sets and functions. From these `FlattenSeq` is
  the concatenation of what it is given, what is kept of a concatenation is the
  concatenation of what is kept (`GatherFlatten`), and a dialect that says of
  each message what the message says (`OpenAISays`, `ResponsesSays`, `StepSays`)
  says what the conversation says. `AnswersFollow` carries the order of calls and
  results from the messages to the parts, through the place each part has in the
  whole (`Located`). For Anthropic's pairing the invariant of the loop is
  `Waiting`: what is pending are the results since the last message that is none,
  and the last entry is that message's (`AllPending`: when they are flushed none
  is missing). The attempt showed the former assumption, on the order of the
  parts in OpenAI's form, to be too weak: the parts do not tell a turn with two
  calls from two turns with one each, and Anthropic's pairing depends on it.
  `ConversationAssumption` is now about the messages (`AnsweredInTurn`). A
  dialect is told the conversation with its own arguments and blank results
  (`Told`), which is a conversation again (`ToldIsConversation`) whose parts are
  the former's, retold (`ToldParts`): so what is proved of any conversation holds
  of that one, and says what of the history it comes from is sent.
  `StreamsAreFaithful` is about replies of any length. `ReadAs` says what a
  reader has put together as a function of how many events of each block have
  come: the pieces of a kind joined in the order of their blocks, the calls
  listed in it. `IsSent` is the order a dialect keeps - a block is whole before
  another begins, except OpenAI's calls once their names have come, and Ollama's
  calls come at once. `EventRead` says that an event takes `ReadAs` to `ReadAs`
  of one event more; for a text it needs that nothing has come behind the block
  but calls (`Behind`), for a fragment of a call that its index still finds the
  call it belongs to (`NextArgument`). `ReadInv`: while a stream is read, what
  has been put together is `ReadAs` of what `left` says has come, and what was
  shown is its text. At the end this is the whole of what was sent, and before it
  a beginning (`BeginsFlatten`, `ListedBegins`). A whole reply is compared with
  the same: what joining its blocks put in is dropped by `Theirs`, and nothing
  else is (`LinesKept`); its calls are those listed (`Picked`, `WholeCalls`), with
  the arguments `RawArguments` gives, which is where `Carries` is needed
  (`Carried`). `KeptOf` is what both come to.
- **Sessions.** The invariant says that the ids in the store and the ids
  waiting to be adopted are known ones (minted so far, or foreign), that a
  handler waiting to adopt has worked out a legacy version, that an ended id is
  never also a live one, and that a session's idle time is the silence on its
  id (`IdleIsSilence`). One lemma (`StepsOfTheStore`) says that a step renews a
  row, drops the expired rows, deletes a row, ages every row, restarts with an
  empty store or leaves the store alone; the action properties then look at
  those cases.
- **The server's life.** `LinksInv` adds to `WithinBounds` that until Close the
  listener and the URLs change together, that what Close takes away was a
  listener, and that a call about to insert holds a token of its own; the cap is
  then a matter of cardinalities: what the purge and the eviction leave has room
  for one. `ServeInv` counts: the channel holds one result for each listener that
  has ended, so that when ServeAll has taken as many as there are, all have;
  `MainInv` says the same of run and its two halves, and a half that is over
  stays as it ended. `AtStep` and `Left` say what an update has in hand at
  each of its steps and what is left when it is over.
- **Files.** `HistoryIsUndo` holds only between writes. `Windows` says what
  holds inside one: while a clean file is between Record and the write, its
  history is `undo` with the state on disk pushed; between Pop and the write it
  is `undo` without its last. `Heads` keeps one write open in a call and
  the plan non-empty there; `Untouching` says a call that has not begun
  to write has written nothing, which is `RefusedUntouched`.
  For batches, `Promises` says that a plan has one write at most for each file
  (`Keyed`), and that a staged change no later one does away with is in every
  write of its file, planned or made, of which there is one at least. That rests
  on reading what the plan has of a file before the disk (`SourcePlanned`) and
  on `Put` replacing what it had (`PutAbout`), both by the plan's key: hence the
  hypothesis `OneKey`. The code does not see to it for every spelling, which
  `patch_spellings` shows. The other hypothesis, `RenamesMove`, excepts a rename
  between two spellings of one file, which has the same cause.
- **Line endings.** `OneConventionStays` is about texts of any length. `Kind(e)`
  are the texts with the ending `e` throughout: no CR for LF, every LF after a CR
  for CRLF, and any text for `any`. Each kind has with two texts the one after
  the other (`KindCat`), hence all that `FlattenSeq` joins of its members
  (`FlattenStays`), and with a text the two parts of it where it is cut at the
  end of a line (`Cuts`, `Splices`). edit_lines and insert_text cut nowhere else,
  a block of lines has the ending it is given, and the majority vote finds the
  ending of a file that has one: so what they put together is of the file's kind.
  A replacement may begin at the LF of a CRLF but, the anchor having no CR by
  itself, not end at its CR: no LF loses the CR before it (`SwapKeepsLed`, place
  by place). That a conversion keeps the text is `FoldUnfold`: folding undoes
  unfolding, whatever was there. The attempt showed that the property had held in
  the runs only because no text they put in has a CR by itself; it now excepts
  such a CR (`Paired`).
- **Paths.** `OneNameOneFile` is about every tree. `Real` says where a path leads
  through the links on its way, whether or not it exists; links do not change, so
  neither does that, while what `Follow` and `Resolved` give changes as files come
  and go (`FollowIs`, `ResolvedIs`, `DeepIs` say how they follow from it).
  `Shape` is that the tree stays one: everything in a directory, no file a
  directory, nothing in the place of a link; for a write this needs that no file
  is on the way to where an unblocked path leads (`NotThroughFiles`). A
  destination either leads to itself or to nothing yet (`Aims`), so a key of the
  histories that is not its file's path is of a file created under it (`Keys`),
  and every other path has its file's history (`Own`). A name that is reported is
  joined to the path it is of (`RelJoins`), which is inside, so that the first
  try finds it (`LeadsBack`). A lookup by name that comes to a link leads to a
  directory, and the write fails; so what it wrote is the only file of the name
  (`ByName`). The tree is as `SitesAssumption` says: links lead to directories
  that are there.
- **Reload.** `Staged` says for each place a reload can be at what is of the
  old configuration and what of the new: nothing is replaced before
  `ApplyConfig` (`Rest`), afterwards `table` and `off` hold what the loops have
  reached (`Halfway`), and the directories are those of the agent in use and of
  one more, made or not yet closed (`Shims`). `Loaded` says that what a reload
  holds is what every request that waits on it has seen in the file.
  `Effective` says that both configurations a reload is between are among those
  in effect for every request served. From these two, whatever a request looks
  at is of one of them (`OfSome`), and is complete unless the two differ
  (`Unraced`), which gives the properties of answers, step by step.

The theorems are of each module's `Spec` (`McpSpec` in the MCP client,
`DownloadSpec`, `ListenersSpec` and `UpdateSpec` in the server's life); the runs add bounds (and, in a merged
run, the variables at rest), so they check a part of the same behaviours.

Only model-checked: every liveness property (`BoundedLife`, `NothingHangs`,
`CompletionEnds`, `CallEnds`, `LinksAndSocketsGo`, `HalfUpNeverStays`,
`AnsweredOrStuck`), which is beyond the provers used, as are ENABLED, the
library's induction theorems (`SequenceLemmas` does without) and RECURSIVE
operators (no module declares one). What the patch parser and the line numbers
compute (`PatchLands`, `EditReadsBack`) is defined over sequences and stays with
TLC's bounded inputs. Every other property of a passing run is stated by a
theorem.

## 5. Plan

Of the proofs: `EditReadsBack`, from the lemmas on line ends (`Cuts`, `Splices`)
and one that splitting the parts of a text is splitting the text.

Of the model: `ConfigReload` composed with `FileChanges`, where apply_diff takes
the workspace again in the middle of a call (tools_diff.go:159); the one-shot
mode, /reload and /connect of the console.
