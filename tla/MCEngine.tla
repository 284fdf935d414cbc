------------------------------ MODULE MCEngine ------------------------------
(* Two rounds of at most two proposals each, at most two held-in tasks.      *)
EXTENDS AuditVerify

CONSTANTS a, b, c, t1, t2, t3, P, Q, provider

MCSurfaces == {"execution", "tools", "memory_sources"}
MCHeldIn == {t1, t3}
OneHeldIn == {t1}
MCHeldOut == {t2}
MCProfiles == {P, Q}
MCProviderOf == [p \in {P, Q} |-> provider]
CrossQ == {Q}
None == {}
AFinding == {c}

AppendText(v) == [op |-> "AppendToSurface", surface |-> "execution",
                  kind |-> "str", payload |-> <<v>>]
ReplaceText(v) == [op |-> "ReplaceSurface", surface |-> "execution",
                   kind |-> "str", payload |-> <<v>>]
AppendTool(v) == [op |-> "AppendToListSurface", surface |-> "tools",
                  kind |-> "str", payload |-> v]
BadReplace == [op |-> "ReplaceSurface", surface |-> "tools",
               kind |-> "str", payload |-> a]

Proposal(id, priority, grounded, patch) ==
    [id |-> id, priority |-> priority, grounded |-> grounded,
     leaks |-> ~grounded, patch |-> patch]

\* The last one names a pattern of the held-out tasks; the one before is what
\* a proposer that does not validate its operations may hand over.
MCPool == {Proposal(1, 1, TRUE, <<AppendText(a)>>),
           Proposal(2, 2, TRUE, <<AppendText(b), AppendTool(b)>>),
           Proposal(3, 1, TRUE, <<ReplaceText(c)>>),
           Proposal(4, 1, TRUE, <<AppendTool(a), BadReplace>>),
           Proposal(5, 1, FALSE, <<AppendTool(c)>>)}

SmallPool == {p \in MCPool : p.id \in {2, 3}}

EmptyBase == [s \in MCSurfaces |-> <<>>]
Overlay(ops) == [ops |-> ops, smoke |-> "none"]

\* A fresh harness, and one that already carries edits for the provider and
\* for the model P.
Fresh == [base |-> EmptyBase, providers |-> <<>>, models |-> <<>>,
          certified |-> {}]
Edited ==
    [base |-> EmptyBase,
     providers |-> [q \in {provider} |-> Overlay(<<AppendText(b)>>)],
     models |-> [q \in {P} |-> Overlay(<<AppendTool(c)>>)],
     certified |-> {P}]

Setup(who, target_, layers_) ==
    [proposer |-> who, target |-> target_, layers |-> layers_]

\* Every engine whose edits go where they are measured: a heuristic proposer
\* edits the base, so its profile must have no edits of its own.
OwnTarget ==
    {Setup("llm", t, l) : t \in {P, NoProfile}, l \in {Fresh, Edited}}
    \cup {Setup("heuristic", t, Fresh) : t \in {P, NoProfile}}
LLMForP == {Setup("llm", P, l) : l \in {Fresh, Edited}}
=============================================================================
