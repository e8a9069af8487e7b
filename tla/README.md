# TLA+ models of realmx's agent tree

This directory holds TLA+ models of the agent-tree delegation in
`codex-rs`. An orchestrator (the parent) hands a task to a child
process (the worker). The worker runs its own agent (the L2 thread) in
a git worktree. Every interactive request that agent raises is sent
back to the parent, which asks the human and returns the answer.
TLC checks the models.

## 1. The system

The sources are four files:

| file | part |
|---|---|
| `src/codex-rs/core/src/agent_tree/ipc.rs` | IPC codec: `AgentTreeIpcMessage`, `AgentTreeRequestKey` |
| `src/codex-rs/cli/src/agent_tree_worker.rs` | the worker process: `run()` and its tasks |
| `src/codex-rs/core/src/tools/handlers/agent_tree.rs` | the parent's tools: `delegate::handle`, `apply_diff::handle` |
| `src/codex-rs/core/src/config_loader/config_layer_source.rs` | `ConfigLayerSource::precedence` and its `PartialOrd` |

### Components and their state

- **IPC codec** (ipc.rs). One JSON object per line, tagged by `type`. It has no state.
- **Parent delegate handler** (`delegate::handle`).
  - It spawns `<self> agent-tree-worker` and writes the `WorkRequest`.
  - It then reads the child's stdout one line at a time. It answers each `Need*` inline: it asks the session and writes the answer before it reads the next line.
  - It returns on a `WorkerResult` (success), an `Error` line ("worker error"), or EOF ("exited unexpectedly").
  - A failed write is `Fatal`.
  - Returning drops the child's stdin and stdout. The child is not killed: `kill_on_drop` is not set.
  - State: where `handle` is, the need being answered, and the outcome.
- **Worker runtime** (`run()`). A tokio runtime with these tasks:
  - **main task**, in this order:
    1. read the first line;
    2. spawn the stdin task;
    3. resolve the git root and create the worktree;
    4. subscribe to thread creation, then `start_thread` (L2);
    5. send an info log;
    6. spawn the drain supervisor;
    7. submit the prompt;
    8. poll `agent_status` until it is final;
    9. cancel the event loop and join the supervisor;
    10. generate the diff, snapshot the command log and send the `WorkerResult`;
    11. return. The process then exits.
  - **stdin task (input dispatcher)**. It routes `*Answer` lines to `deliver_*_answer`. It ignores `Log`. It echoes `Error` and stops. It stops silently on unparsable JSON. For any other variant it sends a warn log.
  - **drain supervisor**. It spawns a drain for each thread in `list_thread_ids()`, then one for each thread-created broadcast, until it is cancelled. A `RecvError` from the broadcast (`Lagged` after an overflow) also ends the loop.
  - **per-thread drains**. Each loops on `select!(cancel, next_event)`:
    - an interactive event runs `handle_*`, which is described under the registry below;
    - an `ExecCommandEnd` is pushed onto the shared command log;
    - any other event is ignored.
  - **request-key registry**. There are three `HashMap<AgentTreeRequestKey, oneshot::Sender>` maps, one per kind.
    - `handle_*` inserts a sender, sends the `Need*`, awaits the receiver, then submits the answer to the agent.
    - `deliver_*` removes the sender and sends the answer on it.
  - **shared stdout**. A `Mutex<Stdout>`: `send` writes a whole line under the lock.
  - **worktree manager**. `git rev-parse`, `git worktree add`, and `generate_worktree_diff`. That runs `git diff` for the tracked files, and `git diff --no-index /dev/null <rel>` for each line of `git ls-files --others`. `run_git_strict` accepts exit 0 only; `run_git_allow_diff_exit_code` accepts 0 and 1.
- **Agent threads** (`ThreadManager`/`CodexThread`, in codex-core outside `src/`).
  - A thread emits events and accepts `submit`.
  - An interactive request blocks the thread until its answer is submitted.
  - L2 may create sub-threads (Collab). `ThreadManager` broadcasts each creation, including L2's own creation.
- **Pure helpers**: `build_l2_prompt`, `truncate_output`, and `ConfigLayerSource::precedence`/`partial_cmp`.
- **`apply_diff::handle`**. It pipes a diff into `git apply` and reports the result.

### How they interact

The two processes share two pipes:

- `toWorker`: the parent writes the WorkRequest and the answers.
- `toParent`: the worker writes logs, `Need*` lines, the result and errors.

Inside the worker, the drains, the stdin task and the main task share the registries, the command log and stdout. The drains and the supervisor are cancelled together through one `CancellationToken`.

### What is hard here, and the properties that answer it

- **Registration before sending.** The key must be registered before the `Need*` line leaves. Otherwise a fast answer finds no sender and is dropped.
- **Answer routing.** Answers must reach the request they belong to, across threads, event ids and kinds.
- **Drains per thread.** Each thread must be drained exactly once. Two drains on one thread race for its events.
- **Result is last.** `worker_result` must be the last line (spec section 5), yet drains are never joined.
- **Startup failures.** They must be reported with an `error` line (spec section 7).
- **Parent closing.** If the parent closes, an awaiting drain must still get the default answer (spec section 5 and S3). Nothing must be left blocked.
- **The delegate must return** once L2 has finished.
- **Commands complete.** The result's command log must hold every command L2 ran, although the snapshot is taken while drains may still have events to process.
- **One exchange per request.** Each interactive request is asked, answered and submitted once, with the value the user gave. The abstract `AgentTreeExchange` states this, and the system is checked against it.
- **Byte slicing.** `truncate_output` cuts a UTF-8 string at a byte index.

## 2. Modules

| module | models | role |
|---|---|---|
| `AgentTreeIpc` | ipc.rs | message vocabulary: kinds, request keys, answer values, line constructors |
| `AgentTreeVars` | (shared) | the variables of both processes and the pipes between them |
| `AgentTreeWorker` | agent_tree_worker.rs | the worker: one action per step of each task, plus the agent-thread environment |
| `AgentTreeDelegate` | agent_tree.rs `delegate::handle` | the parent's read/answer loop, and an abort of the tool call |
| `AgentTreeSystem` | both | composition: `Next == WorkerNext \/ DelegateNext`, and the properties |
| `MC_AgentTreeSystem` | - | model values for the threads |
| `MC_AgentTreeWorkerPeer` | - | the worker with an arbitrary peer on its stdin |
| `AgentTreeExchange` | `handle_*` / `deliver_*` | abstract request exchange: ask, answer, submit; `AgentTreeSystem` refines it |
| `AgentTreeTruncate` | `truncate_output` | the function over UTF-8 texts, with its panic |
| `AgentTreePrompt` | `build_l2_prompt` | the prompt as the sequence of pushed pieces |
| `ConfigLayerSource` | config_layer_source.rs | the variants, `precedence()` and `partial_cmp` |
| `AgentTreeWorktree` | agent_tree_worker.rs `generate_worktree_diff`, `run_git_*` | the final diff: the three git steps, their exit-code policy, and the trim and filter of the listing |
| `MC_AgentTreeHelpers` | - | the pure modules and the worktree diff in one run, one of them in focus per behaviour |
| `AgentTreeApplyDiff` | agent_tree.rs `AgentTreeHandler::handle`, `apply_diff::handle` | tool dispatch, and the handler and a `git apply` child joined by two bounded pipes |
| `MC_AgentTreeApplyDiff` | - | the tool names a call may carry |

### Worker actions and their code

| action | code |
|---|---|
| `ReadWorkRequest` | the first-line read. EOF, an unparsable line, or a non-`work_request` variant each return, with or without an `error` line. |
| `Setup` | git root and worktree creation; a failure returns through `?`. |
| `StartThread` | `subscribe_thread_created` then `start_thread`. L2's own creation lands in the broadcast receiver (`createdRx`). |
| `SendStartedLog` | the info log. |
| `SpawnSupervisor` | spawn of the supervisor task. |
| `SubmitPrompt` | submission of the prompt; a failed submit returns through `?`. |
| `WaitFinal` | the end of the poll, then `event_loop_cancel.cancel()`. |
| `JoinSupervisor` | `drain_task.await`. |
| `GenerateDiff` | the diff step, success or failure; `AgentTreeWorktree` models its steps. |
| `SendResult` | the command-log snapshot and the result line. |
| `ProcessExit` | `run()` has returned; the process is gone. |
| `DispatchLine`, `DispatchEof` | the stdin task's loop body and its end. |
| `Deliver` | `deliver_*_answer`. |
| `SupervisorList`, `SupervisorRecv`, `SupervisorCancel` | the supervisor: its initial listing and the two `select!` branches. `SupervisorRecv` spawns a drain for a created thread, or ends the loop on `Lagged`. |
| `DrainNext`, `DrainCancel` | the drain's two `select!` branches. |
| `DrainRecord` | the `ExecCommandEnd` push. |
| `DrainInsert`, `DrainSend`, `DrainReply` | the three phases of `handle_*`: insert the sender; send the `Need*`, where a failed send leaves the sender registered and the drain goes on; await the value and submit it. |

`Broadcast` is the thread-created channel (spec-modelled): it holds `CreatedCap` creations, and an overflow drops the oldest and puts `Lagged` at the head of the receiver.

`SendLine` is `send`. A write after the parent has dropped its end fails, so nothing is appended.

`AgentEmit`, `AgentSpawn` and `AgentFinish` are the agent threads, and are modelled from the spec. A thread emits events with ids 1..`MaxEvents`. It cannot finish while an interactive request of its own is unanswered.

Data is abstracted:

- A line is its variant, plus the kind and key of a `Need*` or answer.
- A value is either the user's decision for one `(kind, key)`, or the default.
- A command is `(thread, event id)`.
- Prompts, diffs, command text and log text are left out of the system model.

### The pure modules

Each pure module makes its input the state: `Init` and the one action each
pick any input of a bounded set, so TLC evaluates the function on all of them.

- **`AgentTreeTruncate`.** A text is a sequence of character widths (1 to 3 bytes). A byte is `<<tag, char, position>>`, so a continuation byte (position > 1) is visible. `IsCharBoundary` is `str::is_char_boundary`. `TruncateOutput` returns `[panic, out]`: the text when it fits, a panic when `max_bytes` is not a boundary, otherwise the prefix plus the marker. The marker `"\n…(truncated)…\n"` is its 15 characters' widths: 19 bytes.
- **`AgentTreePrompt`.** A prompt is the sequence of strings `push_str` appends. Contexts include `""` and a whitespace-only one; `Blank` says which ones `trim()` empties.
- **`ConfigLayerSource`.** A layer is its variant and one field value: a path of two for the variants with fields, a fixed `NoPayload` for unit variants.

- **`AgentTreeWorktree`.** The input is a worktree: whether tracked files changed, and a set of untracked file names. A name is abstracted to what decides how it comes out of `ls-files` and `trim()`:
  - an id;
  - a kind: plain, special (a character git C-quotes under the default `core.quotePath`: non-ASCII, `"`, `\`, a control character), or blank (whitespace only);
  - whether it starts or ends with whitespace.

  `LsFilesLine` quotes a special name. `Trim` strips the whitespace of an unquoted line. `IsEmptyLine` is the filter. A `git diff --no-index` of a path that names no file prints nothing and exits 1, as git 2.39 does ("Could not access"). Each git step may also fail (exit 128); a failed git prints nothing on stdout. `DiffTracked`, `ListUntracked`, `DiffUntracked` (one loop iteration) and `DiffDone` are the steps; `Fail` is the `?` that returns an error.

`MC_AgentTreeHelpers` explores the four in one run. Three of them have a property there; `truncate_output` has only its violation run, v_truncpanic. A behaviour has one of them in focus: its input ranges over its bounded set, and the others keep a fixed input. The states are therefore the sum of the four input spaces, not their product. After a diff is done, `NextWorktree` starts on another worktree.

### apply_diff and tool dispatch

`AgentTreeApplyDiff` has two processes:

- **The handler** (`hpc`):
  - `Dispatch` is `AgentTreeHandler::handle`. A non-function payload, an unknown tool name or unparsable arguments each return an error. `agent_tree_delegate` goes to `AgentTreeDelegate` (here it just returns). `agent_tree_apply_diff` goes on.
  - `Spawn` either fails (a model-facing error) or starts git.
  - `WriteChunk` is one pipe-sized chunk of `write_all`. It blocks on a full pipe. Once git has exited it fails with EPIPE, which the handler maps to `Fatal`.
  - `Shutdown` is `stdin.shutdown()`. On Unix, tokio's `ChildStdin` implements it as a no-op, and the `stdin` taken out of the child at line 297 lives until `handle` returns. `wait_with_output` only drops `child.stdin`, which the `take()` already emptied. So the step leaves the pipe open: `stdinClosed` turns true only when `handle` returns.
  - `ReadErr` and `WaitExit` are `wait_with_output`: read stderr to EOF, then reap git and map its status.
- **git** (`gpc`). It is modelled from its documented behaviour, marked spec_modelled in the map:
  - `GitDieEarly` is a setup failure: one `fatal:` line, then exit.
  - `GitStart`, then `GitRead` reads the patch. git reads the whole patch before it checks it.
  - `GitApply` succeeds or fails at EOF. Because the pipe stays open, it is never enabled while the handler waits.
  - On failure, `GitReport` writes its stderr, blocking on a full pipe, and ends once it is done or the handler has gone.

`Finished` is the stuttering step once both processes have stopped.

### The abstract exchange and the refinement

`AgentTreeExchange` says what the worker promises an agent thread about an interactive request `r = <<kind, key>>`. `phase[r]` goes idle, asked, answered, done. `Answer` takes the user's decision for `r` or the default. `Submit` keeps the answer. `Close` is the process exiting. `ExFairSpec` adds weak fairness to `Answer` and `Submit`.

`AgentTreeSystem` instances it as `Exchange` with this mapping:

- done: a drain has submitted for `r` (`submitted`), and the answer is the submitted value;
- answered: a drain awaits `r` and its oneshot (`slot`) holds a value, which is the answer;
- asked: the key is in `pending[kind]`;
- idle otherwise; `open` is `~workerExited`.

The properties `ExchangeSpec == Exchange!ExSpec` and `ExchangeFairSpec == Exchange!ExFairSpec` are checked as `PROPERTY` in safety2 and live1.

## 3. Runs

| run | cfg | bounds | checks | result |
|---|---|---|---|---|
| safety2 | `safety2.cfg` | 2 threads, 1 event each, exec and patch approvals, parent may abort, broadcast capacity 2 | `TypeOK`, `InFlightRegistered`, `AnswerCorrelation`, `CreatedThreadDrained`, `ExchangeSpec` | pass (about 159k states) |
| live1 | `live1.cfg` | 1 thread, 2 events, every event type, weak fairness | `AwaitedAnswerArrives`, `DelegateReturns`, `ExchangeFairSpec` | pass |
| peer | `peer.cfg` | worker alone, up to 2 unread lines written by an arbitrary peer; a silent sub-thread and a broadcast of capacity 1 | `RegisteredHasWaiter` | pass (about 539k states) |
| helpers | `helpers.cfg` | texts of up to 3 characters of widths 1-3, `max_bytes` 4; 1 task, 4 contexts (absent, empty, whitespace, text), up to 3 of 2 test commands; every variant with 2 paths; worktrees with up to 3 plainly named untracked files | `PromptMatchesSpec`, `LayerOrderIsSpecOrder`, `DiffMatchesSpec` | pass (248 states) |
| v_order | `v_order.cfg` | 1 thread, 2 command ends | `CommandsInThreadOrder` | violation |
| v_last | `v_last.cfg` | 2 threads, 1 approval each | `ResultIsLast` | violation |
| v_exit | `v_exit.cfg` | 1 thread | `FailureReported` | violation |
| v_abortlive | `v_abortlive.cfg` | 1 thread, 1 approval, parent may abort | `AwaitedAnswerArrives` | violation |
| v_truncpanic | `v_truncpanic.cfg` | texts of up to 3 characters, `max_bytes` 4 | `TruncateTotal` | violation |
| v_applyhang | `v_applyhang.cfg` | 3 tool names, diff 10 chunks, stderr 10 chunks, pipes of 4, git may die in setup | `ApplyDiffReturns` | violation |
| v_applyfatal | `v_applyfatal.cfg` | as v_applyhang | `FailureIsUserFacing` | violation |
| v_untracked | `v_untracked.cfg` | worktrees with up to 2 untracked files, plainly named or with a name git C-quotes | `DiffMatchesSpec` | violation |

### The properties

- **`InFlightRegistered`.** Every request between the processes is still registered in the worker's pending map. This covers a `Need*` the parent has not read, the one it is answering, and an answer not yet read. This fails if `handle_*` sent before inserting, or if a delivery removed the wrong key.
- **`AnswerCorrelation`.** What a drain submits for `(thread, event, kind)` is that request's decision or the default. A key without the thread id, or a registry confused across kinds, breaks it. With two threads, both use event id 1, so such a bug would show.
- **`RegisteredHasWaiter`.** A registered sender always belongs to a handler still sending or awaiting, unless the peer has gone.
- **`CreatedThreadDrained`.** Until the cancel fires, every thread that exists has a drain, or its creation still waits in the broadcast receiver of a looping supervisor (spec section 4.3.2). A supervisor loop that ended on anything but the cancel breaks it, and so does a creation overwritten in the broadcast. It holds with a capacity that keeps every creation. With capacity 1, TLC finds the sub-thread undrained: the supervisor stops on `Lagged`. `ThreadManager`, outside `src/`, sets the real capacity; see the hazards.
- **`AwaitedAnswerArrives`.** A drain awaiting an answer eventually gets it, unless the worker ends first. This is a liveness property.
- **`DelegateReturns`.** Once L2 is final, the delegate call returns. This is a liveness property.
- **`ExchangeSpec`.** Every step of worker and parent is a step of the abstract exchange. A request is registered before it is answered. It is submitted once, and only after an answer was delivered. The value submitted is the one delivered. A handler that submitted without awaiting its answer would break it; `AnswerCorrelation` alone would not notice, because the default is a legal value.
- **`ExchangeFairSpec`.** Under the tasks' fairness, every registered request is answered and submitted while the worker runs. It holds in live1, where the parent does not abort. v_abortlive shows what an abort does.
- **`PromptMatchesSpec`.** `build_l2_prompt` equals the section 4.3.3 concatenation, written as a fold. There is no Context section for an absent or whitespace-only context, no tests section for empty tests, and the tests keep their order.
- **`LayerOrderIsSpecOrder`.** `partial_cmp` orders any two layers as spec property 8 lists the variants. It never says Equal for two different variants, so a sort by it cannot keep layers in the order they were found. A precedence value mistyped onto a neighbour's breaks it.
- **`DiffMatchesSpec`.** When `generate_worktree_diff` returns `Ok`, the string is the spec's combined diff (section 4.5, scenario S5): the tracked diff, then one diff per untracked file in listing order. It holds for ordinary names. Accepting any exit status would let a failed git step drop its piece.
- **The violation runs** each state what the spec says. TLC shows the code does otherwise; PROJECT.json lists the findings:
  - **v_order.** L2 is drained twice: once from `list_thread_ids()`, and once from the creation broadcast, because `subscribe_thread_created()` precedes `start_thread`. The two drains race, so commands of one thread can be logged out of order.
  - **v_last** (`ResultIsLast`: nothing follows `worker_result`). Drains are never joined: only the supervisor is awaited. A drain's `select!` is not biased, so after the cancel it may still take a ready event, and a request taken that way is written as a `Need*` after `worker_result`. The parent never reads it.
  - **v_exit.** A failing git root, worktree, thread start or diff returns `Err` from `run()` without an `error` line. The parent then reports "exited unexpectedly".
  - **v_untracked.** Each line of `git ls-files --others` is trimmed and passed to `git diff --no-index`. git C-quotes a name with a non-ASCII byte, a quote or a backslash: `é.txt` is listed as `"\303\251.txt"`. That path names no file, and git exits 1, the code it also uses for "files differ". So the error is taken for a diff with empty output, and the file is silently left out. The spec says the diff covers the untracked new files (section 1). The trace is such a name. `SpecDiff` leaves out whitespace-only names, which section 4.5 filters. A name with leading or trailing whitespace also loses it to `trim()`, but section 4.5 trims the lines too, so the run does not count that case. The behaviour was checked with git 2.39.
  - **v_truncpanic.** `text[..max_bytes]` panics when `max_bytes` falls inside a multi-byte character. At the call site the panic ends that thread's drain task, and its later requests never reach the parent.
  - **v_applyfatal.** When git dies in setup before reading the diff, `write_all` fails with EPIPE, and the handler returns `FunctionCallError::Fatal`. That aborts the turn, though spec sections 4.4 and 6 promise a model-facing error carrying git's stderr, which is never read on this path.
  - **v_applyhang** (`ApplyDiffReturns`: the call returns with git's result). `stdin.shutdown()` does not close git's stdin (see `Shutdown` above). git reads the patch to EOF, which never comes, and the handler waits in `wait_with_output` for git to exit. The trace writes the whole diff, shuts down and stops there. Only a git that fails in setup, before reading stdin, lets the call return. Deadlock checking is off in this run, because the hang is what it shows.
  - **v_abortlive.** When the tool call is aborted, the parent drops the pipes. The senders stay in maps that live as long as the process, so no default answer is ever produced. The drain waits forever. The L2 thread never finishes, and the worker never exits.

### Bounds

- Two threads with one event id in common are enough to distinguish keys by thread.
- Two events on one thread are enough for per-thread order.
- Two drains per thread is the most the code can create (`DrainIds`).
- apply_diff: 10 diff chunks and 10 stderr chunks through pipes of 4 make both writers block on a full pipe.
- `max_bytes` 4 with characters of 1 to 3 bytes puts the cut on every position in a character, and on a text of exactly `max_bytes` bytes. `truncate_output` is parametric in `max_bytes`, so 4 stands for 16 384.
- The peer's 2 unread lines in the two pipes together let a garbage, error or unexpected line arrive before or after an answer.
- The peer run has a second thread that only exists (`SubThreadSilent`, a state constraint on its events), and a broadcast of capacity 1. L2's and its creation then overflow the receiver, so the supervisor's `Lagged` branch is reached. Its events would add nothing the peer's lines do not.
- safety2's broadcast capacity 2 holds every creation of its two threads. That is the assumption under which `CreatedThreadDrained` holds.
- Worktree diff: three plainly named untracked files give the listing order something to keep, and a failure may hit each step. The violation run uses two names, plain or quoted.

### Deadlock and fairness

Deadlock checking is off in v_applyhang, where the hang is the finding, and it is off (`CHECK_DEADLOCK FALSE`) in the runs of the worker and delegate, because that system really stops:

- after a normal run, the call has returned and the worker has exited;
- after an abort, a drain may wait forever. That is the hang v_abortlive demonstrates.

Fairness (live1):

- Every tokio task (main, stdin, supervisor, each drain) is weakly fair: tokio polls every ready task.
- The delegate's steps are weakly fair. Weak fairness of `AnswerNeed` also stands for the user eventually answering.
- Agent threads are not fair: nothing obliges an agent to finish.
- `Abort` is not fair: it is the environment's choice.

Fairness (v_applyhang): the handler task is weakly fair (tokio polls it whenever a pipe it waits on is ready), and so is git (the OS runs it).

## 4. Not modelled yet, and the plan

Notes:

- Scenario S4 says the final 21 bytes of a truncated output are the marker. The marker `"\n…(truncated)…\n"` is 19 bytes (each `…` is 3). The model uses the code's 19. This is a mismatch in the spec's text only, and is not checked by a run.
- `ConfigLayerSource` derives `PartialEq` but implements `PartialOrd` by precedence only. Two layers of one variant with different paths compare `Equal` and yet are not `==`, which the `PartialOrd` contract forbids. Nothing in `src/` sorts by it or compares layers with `==`, so no run checks it.
- The stdin task stops on an inbound `error` line or on unparsable JSON, after which no answer is delivered. In this repository the parent writes only the `WorkRequest` and answers, so only a foreign writer (the peer model) reaches this, and stopping there is what spec section 4.3.1 prescribes. It is not listed as a hazard.
- The `truncate_output` result is not compared with a restatement of itself: only its panic (`TruncateTotal`) is checked.
- `SendResult` takes the command snapshot (line 246) and the send (line 254) as one step. A drain pushing a command between them, or after them, would only make the log miss it; spec section 5 lets drains stop at their next suspension point after the cancel, so no property is about it.
- `ProcessExit` takes the process as gone once `run()` returns. The stdin task may still be in a blocking read of `tokio::io::stdin`, which can hold up the runtime's shutdown while the parent keeps stdin open. The caller of `run()` is outside `src/`.

To be added in later sittings, in this order:

1. **Larger instances.** safety2 with two events per thread and all three kinds, under a state constraint if needed. It grows past the run-time budget without one.

Left out for good:

- serde encoding and decoding, and line framing (a library);
- git and filesystem effects beyond success or failure, except in the final diff, where what git prints for a name is modelled;
- the path and uuid of `create_worktree`, which no property reads;
- `ThreadManager`'s real broadcast capacity, which is outside `src/`. The model takes it as the constant `CreatedCap`.
