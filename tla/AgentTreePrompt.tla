----------------------------- MODULE AgentTreePrompt -----------------------------
(***************************************************************************)
(* build_l2_prompt of codex-rs/cli/src/agent_tree_worker.rs: the prompt    *)
(* the worker submits to its L2 thread, built from a WorkRequest's task,   *)
(* optional context and tests.  A prompt is the sequence of pieces the    *)
(* code appends with push_str, in order; a literal is a string token, a   *)
(* request field is the field's value.  The state is the request, so that *)
(* every request of the bounded sets is visited.                          *)
(***************************************************************************)
EXTENDS Naturals, Sequences

LOCAL Seqs == INSTANCE SequencesExt

CONSTANTS
    Tasks,      \* task strings
    Contexts,   \* context strings, whitespace-only ones included
    Blank,      \* the members of Contexts whose trim() is empty
    None,       \* an absent Option<String>
    Cmds,       \* test commands
    MaxTests    \* bound: commands in a request's tests

ASSUME Blank \subseteq Contexts /\ None \notin Contexts

VARIABLE request

Requests ==
    [task : Tasks, context : Contexts \cup {None},
     tests : Seqs!SeqOf(Cmds, MaxTests)]

Sep == "\n\n---\n\n"

\* One "- <cmd>\n" line per test command, in the order of tests.
TestLines(tests) ==
    Seqs!FlattenSeq([i \in DOMAIN tests |-> <<"- ", tests[i], "\n">>])

\* Mutant: the context test without trim(), so a whitespace-only
\* context still gets a section.
ContextSectionUntrimmed(c) ==
    IF c # None /\ c # "" THEN <<Sep, "Context:\n", c>> ELSE <<>>

ContextSection(c) ==
    IF c # None /\ c \notin Blank THEN <<Sep, "Context:\n", c>> ELSE <<>>

TestsSection(tests) ==
    IF tests # <<>>
    THEN <<Sep, "Preferred tests:\n">> \o TestLines(tests)
    ELSE <<>>

BuildL2Prompt(r) ==
    <<r.task>> \o ContextSection(r.context) \o TestsSection(r.tests)

PromptInit == request \in Requests

NextRequest == request' \in Requests

PromptSpec == PromptInit /\ [][NextRequest]_request

(***************************************************************************)
(* The reference: spec section 4.3.3 and property 6, written as a fold     *)
(* over the optional sections.                                            *)
(***************************************************************************)
SpecPrompt(r) ==
    LET withContext ==
            IF r.context = None \/ r.context \in Blank THEN <<r.task>>
            ELSE <<r.task, Sep, "Context:\n", r.context>>
        addTest(acc, cmd) == acc \o <<"- ", cmd, "\n">>
    IN  IF Len(r.tests) = 0 THEN withContext
        ELSE Seqs!FoldLeft(addTest,
                           withContext \o <<Sep, "Preferred tests:\n">>,
                           r.tests)

\* The prompt the worker submits is the 4.3.3 concatenation: a missing or
\* whitespace-only context gives no Context section, no tests give no
\* Preferred tests section, and the test lines keep the request's order.
PromptMatchesSpec == BuildL2Prompt(request) = SpecPrompt(request)
=============================================================================
