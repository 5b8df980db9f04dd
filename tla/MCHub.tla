------------------------------- MODULE MCHub -------------------------------
(* The Context Hub in two parts: what a log means (TaskLog), and how the    *)
(* store keeps it (HubStore).  The parts share no state: the store's fold   *)
(* cursor stands for the sequence of records that TaskLog gives a meaning.  *)
(* A behaviour is one scene of one part.                                    *)
EXTENDS TaskLog, HubStore

CONSTANTS Scenes,            \* the scenes checked
          o1, o2, o3, o4, o5, o6, r1, s1, s2

P(ct, role, arg, ref, exitOk, scopeOk) ==
    [content_type |-> ct, role |-> role, arg |-> arg, ref_version |-> ref,
     exitOk |-> exitOk, scopeOk |-> scopeOk]

\* Every row of the fold: all verdicts and decisions, valid and not.
FoldPayloads ==
    {P(ct, "executor", "none", 0, TRUE, TRUE) : ct \in {"design", "code_changes", "revision", "other"}}
    \cup {P("review", "reviewer", v, 0, TRUE, TRUE) : v \in Verdicts \cup {"invalid"}}
    \cup {P("decision", "human", d, 0, TRUE, TRUE) : d \in Decisions \cup {"invalid"}}
    \cup {P("note", p, a, 0, TRUE, TRUE) : p \in {"executor", "human"}, a \in {"ack", "plain"}}

\* Every lint: mis-cased roles, incomplete reviews, correction notes and
\* revisions by reference.
LintPayloads ==
    {P("design", "architect", "none", 0, TRUE, TRUE),
     P("code_changes", "executor", "none", 0, TRUE, TRUE),
     P("code_changes", "Executor", "none", 0, TRUE, TRUE),
     P("note", "executor", "ack", 0, TRUE, TRUE),
     P("decision", "human", "reject", 0, TRUE, TRUE)}
    \cup {P("revision", "executor", "none", ref, TRUE, TRUE) : ref \in {0, 3}}
    \cup {P("review", "reviewer", v, 0, e, TRUE) : v \in {"fail_design", "pass"}, e \in BOOLEAN}
    \cup {P("review", "Reviewer", "fail_code", 0, TRUE, FALSE)}
    \cup {P("note", p, "plain", ref, ok, ok) :
            p \in {"reviewer", "executor"}, ref \in {3, 4}, ok \in BOOLEAN}

MCPayloads == FoldPayloads \cup LintPayloads

(* Who takes part in a scene of the store, and what may go wrong in it.     *)
Scene(who, readers, specs, top, types, spent) ==
    [who |-> who, readers |-> readers, specs |-> specs, top |-> top, types |-> types, spent |-> spent]

Faults(crash, foreign, damage, metaFailure) ==
    [crash |-> crash, foreign |-> foreign, damage |-> damage, metaFailure |-> metaFailure]

StoreScene ==
    [append |-> Scene({o4, o5, o6}, {}, {s1}, 4, 2, Faults(1, 1, 0, 1)),
     cache |-> Scene({o4}, {r1}, {s1, s2}, 3, 1, Faults(1, 1, 1, 0)),
     cas |-> Scene({o1, o2, o3, o4}, {}, {s1}, 4, 1, Faults(0, 0, 0, 0)),
     stale |-> Scene({o1, o2}, {}, {s1}, 3, 1, Faults(0, 0, 0, 1))]

VARIABLE scene

mcVars == <<vars, storeVars, scene>>

(* The state is one of its scene.                                           *)
InScene ==
    LET s == StoreScene[scene]
    IN  /\ \A o \in Ops \ s.who : ops[o].step = "new"
        /\ \A r \in Readers \ s.readers : reads[r] = NotReading
        /\ \A k \in DOMAIN faults : faults[k] <= s.spent[k]
        /\ {meta.spec, creating.spec, job.spec} \subseteq s.specs \cup {Null}
        /\ \A n \in DOMAIN disk \cup {job.name} : n[1] <= s.top /\ n[2] <= s.types
        /\ scene \in {"cas", "stale"} => job.kind \in {"idle", "append"}

MCInit ==
    /\ Init /\ StoreInit /\ scene \in Scenes
    /\ scene \notin {"fold", "lint"} => flow = "full" /\ ~baseline

(* Every row of the fold in logs of up to five records, from elsewhere too; *)
(* the lints in longer logs that the store alone wrote.                     *)
LogPart ==
    /\ \/ scene = "fold" /\ landed < 5 /\ \E p \in FoldPayloads : AppendRecord(p) \/ LandOutOfBand(p)
       \/ scene = "lint" /\ \E p \in LintPayloads : AppendRecord(p)
    /\ UNCHANGED <<storeVars, scene>>

StorePart == scene \notin {"fold", "lint"} /\ UNCHANGED <<vars, scene>> /\ StoreNext /\ InScene'

MCSpec == MCInit /\ [][LogPart \/ StorePart]_mcVars
=============================================================================
