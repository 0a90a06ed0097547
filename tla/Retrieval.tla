------------------------------ MODULE Retrieval ------------------------------
(***************************************************************************)
(* What a search of the promoted memories (internal/retrieval) selects,    *)
(* how a context is rendered from it, and what the verification of a       *)
(* receipt requires.  A text is the set of its terms and a size, in bytes  *)
(* and in estimated tokens; content is the list of the memories in it.     *)
(***************************************************************************)
EXTENDS PortableHistory, Ordering, SequencesExt

CONSTANTS
    MemoryOrder,  \* position of a memory in the order of memory ids
    TermsOf,  \* the search terms of a content
    ScopeOf,  \* the scope under which it was promoted: [kind, value]
    SizeOf,   \* [bytes, tokens] of its text
    BonusOf,  \* what its kind and its evidence basis add to its score
    Phrases,  \* <<terms, content>>: the query is a phrase of the content
    FrameSize, BlockSize  \* [bytes, tokens] of header and trailer, and of a block

Sizes == [bytes : Nat, tokens : Nat]

\* Memory ids are ordered, scopes are of the five kinds, and a text has finitely many
\* terms and a size.
ASSUME RetrievalAssumption ==
    /\ \A c, d \in Contents :
          /\ MemoryOrder[MemoryOf[c]] \in Nat
          /\ MemoryOrder[MemoryOf[c]] = MemoryOrder[MemoryOf[d]] => MemoryOf[c] = MemoryOf[d]
    /\ \A c \in Contents :
          /\ ScopeOf[c].kind \in {"global", "agent", "repository", "project", "task"}
          /\ SizeOf[c] \in Sizes /\ BonusOf[c] \in Nat
          /\ IsFiniteSet(TermsOf[c])
    /\ FrameSize \in Sizes /\ BlockSize \in Sizes

Text(r) == r[Len(r)]

ZeroSize == [bytes |-> 0, tokens |-> 0]
Plus(s, t) == [bytes |-> s.bytes + t.bytes, tokens |-> s.tokens + t.tokens]
WithinBytes(s, request) == s.bytes <= request.budget.bytes
WithinTokens(s, request) == s.tokens <= request.budget.tokens
Within(s, request) == WithinBytes(s, request) /\ WithinTokens(s, request)

\* What the texts of some matches take of a budget.
Used(matches) == FoldLeft(LAMBDA size, match : Plus(size, match.size), ZeroSize, matches)

\* scopeValueApplies: a scope that the context does not name never applies.
scopeValueApplies(scope, context) ==
    IF scope.kind = "global" THEN scope.value = "*"
    ELSE context[scope.kind] # "" /\ scope.value = context[scope.kind]

\* scopeSpecificity
scopeSpecificity(kind) ==
    [global |-> 1, agent |-> 2, repository |-> 3, project |-> 4, task |-> 5][kind]

Applicable(revisions, context) ==
    {r \in revisions : scopeValueApplies(ScopeOf[Text(r)], context)}

\* The lexical part of rankRevisions: rare terms count more.
Having(term, revisions) == Cardinality({r \in revisions : term \in TermsOf[Text(r)]})
Weight(term, revisions) ==
    1000 + ((Cardinality(revisions) - Having(term, revisions)) * 1000)
             \div (Having(term, revisions) + 1)
Matched(r, request) == TermsOf[Text(r)] \cap request.terms

LexicalScore(terms, applicable) == MapThenSumSet(LAMBDA t : Weight(t, applicable), terms)

Score(r, request, applicable) ==
    IF request.memory # "none" THEN 1
    ELSE LexicalScore(Matched(r, request), applicable)
         + (IF <<request.terms, Text(r)>> \in Phrases THEN 8000 ELSE 0)
         + 250 * scopeSpecificity(ScopeOf[Text(r)].kind)
         + BonusOf[Text(r)]

\* A match of the result: the reference and what the verification rereads.
Match(r, request, applicable) ==
    [revision |-> r, score |-> Score(r, request, applicable),
     specificity |-> scopeSpecificity(ScopeOf[Text(r)].kind), size |-> SizeOf[Text(r)]]

\* matchPrecedes: score, then specificity, then memory id.
matchPrecedes(a, b) ==
    \/ a.score > b.score
    \/ a.score = b.score /\ a.specificity > b.specificity
    \/ /\ a.score = b.score /\ a.specificity = b.specificity
       /\ MemoryOrder[Memory(a.revision)] < MemoryOrder[Memory(b.revision)]

NoExclusions == [scope |-> 0, lexical |-> 0, limit |-> 0, bytes |-> 0, tokens |-> 0]

\* One turn of the selecting loop: what does not fit is passed over.
SelectMatch(acc, match, request) ==
    LET used == Plus(acc.used, match.size)
        pass(why) == [acc EXCEPT !.exclusions[why] = @ + 1]
    IN  CASE Len(acc.selected) >= request.limit -> pass("limit")
          [] Len(acc.selected) < request.limit /\ ~WithinBytes(used, request) -> pass("bytes")
          [] /\ Len(acc.selected) < request.limit
             /\ WithinBytes(used, request) /\ ~WithinTokens(used, request) -> pass("tokens")
          [] OTHER -> [acc EXCEPT !.selected = Append(@, match), !.used = used]

SelectMatches(start, ranked, request) ==
    FoldLeft(LAMBDA acc, match : SelectMatch(acc, match, request), start, ranked)

\* The matches of the wanted memories, best first.
Ranked(wanted, request, applicable) ==
    LET matches == {Match(r, request, applicable) : r \in wanted}
    IN  SortedBy(matches, {p \in matches \X matches : matchPrecedes(p[1], p[2])})

\* rankRevisions and rankExactMemory: with a memory id the query is not scored and
\* memories with other ids are not accounted for.
rankRevisions(revisions, request) ==
    LET applicable == Applicable(revisions, request.context)
        wanted == IF request.memory # "none"
                  THEN {r \in applicable : Memory(r) = request.memory}
                  ELSE {r \in applicable : Matched(r, request) # {}}
        start == [status |-> "completed", selected |-> <<>>, used |-> ZeroSize,
                  active |-> Cardinality(revisions), applicable |-> Cardinality(applicable),
                  exclusions |-> [NoExclusions EXCEPT
                      !.scope = Cardinality(revisions \ applicable),
                      !.lexical = IF request.memory # "none" THEN 0
                                  ELSE Cardinality(applicable \ wanted)]]
    IN  SelectMatches(start, Ranked(wanted, request, applicable), request)

\* Search on a repository that does not verify.
Blocked(revisions) ==
    [status |-> "blocked", selected |-> <<>>, used |-> ZeroSize,
     active |-> Cardinality(revisions), applicable |-> 0, exclusions |-> NoExclusions]

References(matches) == {matches[i].revision : i \in DOMAIN matches}

Frame == [memories |-> <<>>, size |-> FrameSize]

\* A block is added if it still fits.
AddBlock(context, match, request) ==
    LET size == Plus(context.size, Plus(match.size, BlockSize))
    IN  IF Within(size, request)
        THEN [memories |-> Append(context.memories, match.revision), size |-> size] ELSE context

AddBlocks(matches, request) ==
    FoldLeft(LAMBDA context, match : AddBlock(context, match, request), Frame, matches)

\* renderBoundedContext: header and trailer must fit, then the blocks follow in the
\* order of the result.
renderBoundedContext(result, request) ==
    IF Within(FrameSize, request) THEN AddBlocks(result.selected, request) ELSE Frame

Total(exclusions) == exclusions.lexical + exclusions.limit + exclusions.bytes + exclusions.tokens

\* validateReceipt: scopes, order, repetition, budgets and the account of every
\* memory that was left out.
validateReceipt(receipt) ==
    LET result == receipt.result
        request == receipt.request
        sel == result.selected
    IN  /\ result.applicable <= result.active
        /\ result.status = "completed" =>
               result.exclusions.scope + result.applicable = result.active
        /\ result.status = "blocked" => sel = <<>>
        /\ \A i \in DOMAIN sel :
               /\ scopeValueApplies(ScopeOf[Text(sel[i].revision)], request.context)
               /\ sel[i].size = SizeOf[Text(sel[i].revision)]
               /\ sel[i].score > 0
               /\ i > 1 => matchPrecedes(sel[i - 1], sel[i])
        /\ IsInjective([i \in DOMAIN sel |-> sel[i].revision])
        /\ result.used = Used(sel)
        /\ Within(result.used, request) /\ Len(sel) <= request.limit
        /\ (result.status = "completed" /\ request.memory = "none") =>
               result.applicable = Len(sel) + Total(result.exclusions)

\* eventDescendsFrom: along causal parents that were recorded earlier.  Positions
\* grow, so a walk of as many turns as there are events finds every ancestor.
WithCauses(e, found) == found \cup UNION {{q \in e[j].parents : q < j} : j \in found}

Ancestors(e, i) == FoldLeft(LAMBDA found, k : WithCauses(e, found), {i}, [k \in 1..i |-> k])

eventDescendsFrom(e, i, ancestor) == ancestor \in Ancestors(e, i)
=============================================================================
