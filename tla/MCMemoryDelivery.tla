-------------------------- MODULE MCMemoryDelivery --------------------------
(***************************************************************************)
(* Two wordings of one meaning, by the same agent, and another memory.  The*)
(* second wording has the lower memory id.  The repository is built from   *)
(* nothing by two processes, or searched while one export goes on.         *)
(***************************************************************************)
EXTENDS MemoryDelivery

CONSTANTS terse, wordy, other

MCContents == {terse, wordy, other}
MCMemoryOf == [c \in MCContents |-> c]
MCMeaningOf == terse :> "meaning" @@ wordy :> "meaning" @@ other :> "another"
MCKeyOf == MCMeaningOf
MCRankOf == wordy :> 1 @@ terse :> 2 @@ other :> 3
ProcSymmetry == Permutations(Procs)

MCTermsOf == terse :> {"build"} @@ wordy :> {"build", "always"} @@ other :> {"build", "test"}
MCScopeOf == terse :> [kind |-> "global", value |-> "*"]
          @@ wordy :> [kind |-> "global", value |-> "*"]
          @@ other :> [kind |-> "task", value |-> "one"]
Size(b, t) == [bytes |-> b, tokens |-> t]
MCSizeOf == terse :> Size(2, 1) @@ wordy :> Size(4, 3) @@ other :> Size(3, 1)
MCBonusOf == terse :> 300 @@ wordy :> 100 @@ other :> 0
MCPhrases == {<<{"build", "test"}, other>>}
MCFrameSize == Size(2, 1)
MCBlockSize == Size(1, 1)

Context(task) == [agent |-> "codex", repository |-> "", project |-> "", task |-> task]
Query(terms, task, limit, budget) ==
    [memory |-> "none", terms |-> terms, context |-> Context(task), limit |-> limit, budget |-> budget]

\* Both memories selected and rendered; both selected and one rendered; none rendered;
\* another task, to which one of them does not apply.
Ample == Query({"build"}, "one", 2, Size(20, 20))
Tight == Query({"build", "test"}, "one", 2, Size(7, 9))
Short == Query({"build"}, "one", 1, Size(5, 1))
Elsewhere == Query({"build"}, "two", 2, Size(20, 20))

Item(r, adoption, outcome) == [revision |-> r, adoption |-> adoption, outcome |-> outcome]
MCItems == {{Item(<<terse>>, "adopted", "helpful")},
            {Item(<<other>>, "adopted", "unknown"), Item(<<terse>>, "not_adopted", "unknown")},
            {Item(<<other>>, "adopted", "harmful"), Item(<<terse>>, "adopted", "helpful")},
            {Item(<<other>>, "not_adopted", "harmful")}}

Both == {<<terse>>, <<other>>}
MCScenarios ==
    {[histories |-> {}, loadouts |-> {}, decisions |-> MaxLocal, crashes |-> MaxCrashes,
      failures |-> MaxFailures, procs |-> Procs, readers |-> {}, records |-> 0, requests |-> {},
      work |-> {}],
     [histories |-> Both, loadouts |-> {}, decisions |-> 0, crashes |-> 0, failures |-> 0,
      procs |-> {}, readers |-> Readers, records |-> 4, requests |-> {Tight, Short, Elsewhere},
      work |-> {"tool_result", "incomplete_result"}]}
    \cup
    {[histories |-> Both, loadouts |-> {Both}, decisions |-> 1, crashes |-> 0, failures |-> 0,
      procs |-> {p}, readers |-> Readers, records |-> 3, requests |-> {Ample}, work |-> {}] : p \in Procs}
=============================================================================
