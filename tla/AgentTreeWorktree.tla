--------------------------- MODULE AgentTreeWorktree ---------------------------
(***************************************************************************)
(* The final diff of codex-rs/cli/src/agent_tree_worker.rs:                *)
(* generate_worktree_diff and the two git runners it calls.  The input is  *)
(* the worktree: whether tracked files changed, and the untracked files by *)
(* name.  A name is abstracted to what decides how git prints it and how   *)
(* `str::trim` changes it: an id, whether it has a character git quotes    *)
(* (non-ASCII, `"`, `\`, a control character: core.quotePath is on by      *)
(* default), whether it is whitespace only, and whether it starts or ends  *)
(* with whitespace.  Diff text is a piece per file.                        *)
(***************************************************************************)
EXTENDS Integers, Sequences, FiniteSets

LOCAL Seqs == INSTANCE SequencesExt

CONSTANTS
    FileIds,       \* distinct file names, up to their kind
    NameKinds,     \* subset of {"plain", "special", "blank"}
    Pads,          \* subset of BOOLEAN: leading or trailing whitespace
    MaxUntracked   \* bound: untracked files in one worktree

VARIABLES
    tree,       \* [modified, untracked]: the worktree the diff is taken of
    wpc,        \* where generate_worktree_diff is
    paths,      \* ls-files lines, trimmed and filtered, not yet diffed
    combined,   \* the String being built, as its pieces
    result      \* "none", "ok" (Ok(combined)) or "err"

wtVars == <<tree, wpc, paths, combined, result>>

\* A file name; a whitespace-only name has its whitespace as padding.
Names == {n \in [id : FileIds, kind : NameKinds, pad : Pads] :
            n.kind = "blank" => n.pad}

Worktrees == [modified : BOOLEAN,
              untracked : {U \in SUBSET Names : Cardinality(U) <= MaxUntracked}]

\* Exit statuses: 0, 1, or a failure (128, a signal, a spawn error).
Failed == 128

\* The diff of the tracked changes, and of one new file against /dev/null.
TrackedPiece == "tracked"
NewFilePiece(f) == [new |-> f]

\* run_git_strict: the output is used only when status.success().
StrictOk(code) == code = 0

\* Mutant: every exit status accepted, as if only `.output()?` could fail.
AllowDiffOkAnyCode(code) == TRUE

\* run_git_allow_diff_exit_code: exit codes 0 and 1 are success.
AllowDiffOk(code) == code \in {0, 1}

\* `git ls-files --others` prints a name, C-quoted when it has a character
\* core.quotePath quotes; `str::trim` then strips unquoted whitespace.
LsFilesLine(n) == [n EXCEPT !.kind = IF n.kind = "special" THEN "quoted" ELSE @]
Trim(l) == IF l.kind = "quoted" THEN l ELSE [l EXCEPT !.pad = FALSE]
IsEmptyLine(l) == l.kind = "blank" /\ ~l.pad

\* ls-files lists in name order; the model takes one fixed order.
Listing == Seqs!SetToSeq(tree.untracked)

\* `untracked.lines().map(str::trim).filter(|s| !s.is_empty())`.
UntrackedPaths(out) ==
    SelectSeq([i \in DOMAIN out |-> Trim(LsFilesLine(out[i]))],
              LAMBDA l : ~IsEmptyLine(l))

\* What each command prints on stdout; a failed git prints nothing there.
GitDiffOut(code) ==
    IF code # Failed /\ tree.modified THEN <<TrackedPiece>> ELSE <<>>
LsFilesOut(code) == IF code # Failed THEN Listing ELSE <<>>

\* `git diff --no-index -- /dev/null <rel>`: the file's diff with exit 1,
\* or, for a path that names no file, "error: Could not access" on stderr,
\* nothing on stdout, and exit 1 as well.
NoIndexOut(code, p) ==
    IF code # Failed /\ p \in tree.untracked THEN <<NewFilePiece(p)>> ELSE <<>>

WorktreeInit ==
    /\ tree \in Worktrees
    /\ wpc = "tracked" /\ paths = <<>> /\ combined = <<>> /\ result = "none"

Fail == wpc' = "done" /\ result' = "err" /\ UNCHANGED <<tree, paths, combined>>

\* `git diff --no-color` in the worktree; `?` returns its error.
DiffTracked ==
    /\ wpc = "tracked"
    /\ \E code \in {0, Failed} :
          IF AllowDiffOk(code)
          THEN /\ combined' = GitDiffOut(code)
               /\ wpc' = "list"
               /\ UNCHANGED <<tree, paths, result>>
          ELSE Fail

\* `git ls-files --others --exclude-standard`, run strictly.
ListUntracked ==
    /\ wpc = "list"
    /\ \E code \in {0, Failed} :
          IF StrictOk(code)
          THEN /\ paths' = UntrackedPaths(LsFilesOut(code))
               /\ wpc' = "untracked"
               /\ UNCHANGED <<tree, combined, result>>
          ELSE Fail

\* One iteration of the for loop over the listed paths.
DiffUntracked ==
    /\ wpc = "untracked"
    /\ paths # <<>>
    /\ \E code \in {1, Failed} :
          IF AllowDiffOk(code)
          THEN /\ combined' = combined \o NoIndexOut(code, Head(paths))
               /\ paths' = Tail(paths)
               /\ UNCHANGED <<tree, wpc, result>>
          ELSE Fail

\* The loop is over: Ok(combined).
DiffDone ==
    /\ wpc = "untracked"
    /\ paths = <<>>
    /\ wpc' = "done" /\ result' = "ok"
    /\ UNCHANGED <<tree, paths, combined>>

WorktreeNext == DiffTracked \/ ListUntracked \/ DiffUntracked \/ DiffDone

WorktreeSpec == WorktreeInit /\ [][WorktreeNext]_wtVars

-----------------------------------------------------------------------------
\* Spec sections 1, 4.5 and scenario S5: the combined diff is the output of
\* `git diff` followed by the diff of every untracked file against
\* /dev/null, in ls-files order, so the WorkerResult carries the new files;
\* section 4.5 leaves out the names that are empty after trimming.
SpecNewFiles == SelectSeq(Listing, LAMBDA n : n.kind # "blank")

SpecDiff ==
    (IF tree.modified THEN <<TrackedPiece>> ELSE <<>>)
    \o [i \in DOMAIN SpecNewFiles |-> NewFilePiece(SpecNewFiles[i])]

\* When generate_worktree_diff returns Ok, its string is the spec's combined
\* diff: no untracked file is left out or diffed twice, and the order is
\* the tracked diff, then the new files in listing order.
DiffMatchesSpec == result = "ok" => combined = SpecDiff
=============================================================================
