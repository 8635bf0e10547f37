------------------------------- MODULE Skills -------------------------------
(***************************************************************************)
(* The engine that applies a skill to an installation: it walks the        *)
(* directives of a SKILL.md in order, skips what is in place, applies what *)
(* is missing, hands what fails to an agent, and keeps a journal from      *)
(* which the run can be removed.  (scripts/skill-apply.ts)                 *)
(*                                                                         *)
(* A directive is [kind, items, when]: its kind, its body lines as a       *)
(* sequence of [it, needs] - what the line puts into the installation, and *)
(* the variables it substitutes - and its guard, a set of at most one      *)
(* [var, is].  The item of a prompt, or of a capture (a command whose      *)
(* output is bound), is the variable.                                      *)
(***************************************************************************)
EXTENDS Integers, Sequences, SequencesExt

CONSTANTS
  Script,      \* the directives of the skill, in document order
  Values,      \* what a prompt or a capture can bind; none is the empty text
  Standing,    \* things the operator may have there before the skill does
  SkipEffects, \* the effects of commands that the caller performs itself
  MaxRuns,     \* bound: times the skill is applied
  MaxFaults    \* bound: commands, writes and processes that fail

Files == {"copy", "fetch"}                  \* "fetch": copy from-branch
Lasting == Files \cup {"append", "dep", "env-set", "json-merge", "external"}
SideEffects == {"restart", "step", "wire"}
Runs == SideEffects \cup {"external", "capture", "check"}
Kinds == Lasting \cup Runs \cup {"prompt", "operator", "unknown"}

Directives == DOMAIN Script
Kind(d) == Script[d].kind
Body(d) == Script[d].items
Things(d) == {Body(d)[n].it : n \in DOMAIN Body(d)}
Items == UNION {Things(d) : d \in {e \in Directives : Kind(e) \in Lasting}}
Vars == UNION {Things(d) : d \in {e \in Directives : Kind(e) \in {"prompt", "capture"}}}
\* The keys of .env that the operator may have there.
Keys == Standing \cap UNION {Things(d) : d \in {e \in Directives : Kind(e) = "env-set"}}
Unbound == "unbound"

\* A json-merge has one object and a guard a variable bound before it, which
\* validate (scripts/skill-directives.ts) sees to.  That no later directive
\* binds that variable again, and that no two lines bring the same thing, is
\* the care of who writes a skill.
ASSUME SkillsAssumption ==
  /\ Len(Script) \in Nat /\ Directives = 1..Len(Script)
  /\ \A d \in Directives :
       /\ Kind(d) \in Kinds
       /\ Len(Body(d)) \in Nat \ {0} /\ DOMAIN Body(d) = 1..Len(Body(d))
       /\ Kind(d) = "json-merge" => Len(Body(d)) = 1
       /\ \A g \in Script[d].when : g.var \in Vars /\ \A e \in Directives : e >= d => g.var \notin Things(e)
       /\ \A e \in Directives : \A n \in DOMAIN Body(d), m \in DOMAIN Body(e) :
            Kind(d) \in Lasting /\ Body(d)[n].it = Body(e)[m].it => d = e /\ n = m
  /\ Unbound \notin Values
  /\ MaxRuns \in Nat /\ MaxFaults \in Nat

VARIABLES
  tree,     \* what the installation holds of each thing: "absent", "mine" (the
            \* operator's: another file there, an equal line), "skill", "both"
            \* (an equal line of each), "empty" (a file, or an .env value, of no
            \* content) or "twice" (two lines of the skill)
  phase,    \* "idle", "applying", "done" (the result is returned) or "removing"
  pc,       \* the directive the run is at
  at,       \* the body line it is at; 0: the directive is not begun
  bound,    \* vars: what prompts and captures bound
  deferred, \* res.deferred, as directives
  tasks,    \* res.agentTasks, as directives; "blocked" is tasks # {}
  journal,  \* res.journal, as <<directive, thing>>
  fired,    \* history: the side effects of this run
  before,   \* history: the tree when this run began
  torn,     \* history: directives that stopped between two things, and were
            \* not applied to the end since
  runs, faults

skillVars == <<tree, phase, pc, at, bound, deferred, tasks, journal, fired, before,
               torn, runs, faults>>

SkillsInit ==
  /\ \E mine \in SUBSET Standing, blank \in SUBSET Keys :
       tree = [i \in Items |-> IF i \in blank THEN "empty"
                               ELSE IF i \in mine THEN "mine" ELSE "absent"]
  /\ phase = "idle" /\ pc = 0 /\ at = 0
  /\ bound = [v \in Vars |-> Unbound]
  /\ deferred = {} /\ tasks = {} /\ journal = <<>> /\ fired = {}
  /\ before = tree /\ torn = {}
  /\ runs = 0 /\ faults = 0

---------------------------------------------------------------------------
(* What a directive finds: selfStatus, whenMet, substitute *)

Missing(d) == {n \in DOMAIN Body(d) :
                 \/ tree[Body(d)[n].it] = "absent"
                 \/ Kind(d) = "env-set" /\ tree[Body(d)[n].it] = "empty"}

\* Mutant: a directive is in place when its first line is.
InPlaceByFirst(d) == Kind(d) \in Lasting \ {"external"} /\ 1 \notin Missing(d)

InPlace(d) ==
  \/ Kind(d) \in Files \cup {"dep", "env-set"} /\ Missing(d) = {}
  \/ Kind(d) \in {"append", "json-merge"} /\ 1 \notin Missing(d)

GuardMet(d) == \A g \in Script[d].when : bound[g.var] = g.is
Resolved(d, n) == \A v \in Body(d)[n].needs : bound[v] # Unbound

\* What writing its thing makes of it.
Written(d, old) ==
  IF Kind(d) = "append"
  THEN CASE old = "absent" -> "skill" [] old = "mine" -> "both" [] OTHER -> "twice"
  ELSE IF Kind(d) \in Files \/ old \in {"absent", "empty"} THEN "skill" ELSE old

---------------------------------------------------------------------------
(* applySkill *)

Begin ==
  /\ \/ phase \in {"idle", "done"}
     \/ phase = "removing" /\ journal = <<>>
  /\ runs < MaxRuns
  /\ phase' = "applying" /\ pc' = 1 /\ at' = 0
  /\ bound' = [v \in Vars |-> Unbound]
  /\ deferred' = {} /\ tasks' = {} /\ journal' = <<>> /\ fired' = {}
  /\ before' = tree
  /\ runs' = runs + 1
  /\ UNCHANGED <<tree, torn, faults>>

\* The ways a directive is left: to the next one, deferred, or bounced.
Pass == pc' = pc + 1 /\ at' = 0 /\ UNCHANGED <<deferred, tasks>>
Defer == pc' = pc + 1 /\ at' = 0 /\ deferred' = deferred \cup {pc} /\ UNCHANGED tasks
Bounce == pc' = pc + 1 /\ at' = 0 /\ tasks' = tasks \cup {pc} /\ UNCHANGED deferred
Faulty == faults < MaxFaults /\ faults' = faults + 1

Reaches(d) == phase = "applying" /\ pc = d /\ d \in Directives /\ at = 0
Untouched == UNCHANGED <<tree, phase, journal, fired, before, torn, runs>>

Unguarded(d) ==
  /\ Reaches(d) /\ ~GuardMet(d)
  /\ Pass /\ Untouched /\ UNCHANGED <<bound, faults>>

\* A prompt binds an answer; no answer, or one that fails validate, defers it;
\* a resolver that throws bounces it.
Prompt(d) ==
  /\ Reaches(d) /\ GuardMet(d) /\ Kind(d) = "prompt"
  /\ \/ /\ \E v \in Values : bound' = [bound EXCEPT ![Body(d)[1].it] = v]
        /\ Pass /\ UNCHANGED faults
     \/ Defer /\ UNCHANGED <<bound, faults>>
     \/ Bounce /\ Faulty /\ UNCHANGED bound
  /\ Untouched

Operator(d) ==
  /\ Reaches(d) /\ GuardMet(d) /\ Kind(d) = "operator"
  /\ IF tasks = {} /\ \E n \in DOMAIN Body(d) : ~Resolved(d, n)
     THEN Defer /\ UNCHANGED faults
     ELSE \/ Pass /\ UNCHANGED faults
          \/ tasks = {} /\ Bounce /\ Faulty
  /\ Untouched /\ UNCHANGED bound

\* Mutant: a bounce does not hold back the side effects after it.
GatedNever(d) == FALSE
Gated(d) == Kind(d) \in SideEffects /\ tasks # {}

\* A command, or a directive that changes the tree, is skipped, bounced
\* unapplied, or begun.
Weigh(d) ==
  /\ Reaches(d) /\ GuardMet(d) /\ Kind(d) \notin {"prompt", "operator"}
  /\ CASE Kind(d) \in SkipEffects -> Pass /\ UNCHANGED faults
       [] Kind(d) \notin SkipEffects /\ (Gated(d) \/ Kind(d) = "unknown") ->
            Bounce /\ UNCHANGED faults
       [] OTHER ->
            IF InPlace(d) THEN Pass /\ UNCHANGED faults
            ELSE \/ at' = 1 /\ UNCHANGED <<pc, deferred, tasks, faults>>
                 \/ Bounce /\ Faulty
  /\ Untouched /\ UNCHANGED bound

At(d) == phase = "applying" /\ pc = d /\ d \in Directives /\ at > 0
AtLast(d) == at = Len(Body(d)) \/ Kind(d) = "dep"

\* A line that needs a variable nothing bound defers its directive: the lines
\* before it stay.
LineUnresolved(d) ==
  /\ At(d) /\ ~Resolved(d, at)
  /\ Defer
  /\ torn' = IF at > 1 THEN torn \cup {d} ELSE torn
  /\ UNCHANGED <<tree, phase, journal, fired, before, runs, bound, faults>>

\* Mutant: lines are journaled when all of them are written, as files are.
JournaledLate(d) ==
  IF AtLast(d) THEN [n \in DOMAIN Body(d) |-> <<d, Body(d)[n].it>>] ELSE <<>>

\* What a line adds to the journal.  Files are journaled when the last one is
\* written, an install once, a key only when it was set.
Journaled(d) ==
  CASE Kind(d) \in Files \cup {"dep"} ->
         IF AtLast(d) THEN [n \in DOMAIN Body(d) |-> <<d, Body(d)[n].it>>] ELSE <<>>
    [] Kind(d) = "env-set" -> IF at \in Missing(d) THEN << <<d, Body(d)[at].it>> >> ELSE <<>>
    [] Kind(d) \in {"append", "json-merge", "external"} -> << <<d, Body(d)[at].it>> >>
    [] OTHER -> <<>>

\* applyOne, one line at a time; an install takes all its packages at once.
\* After the last line the consumer is told, and what it throws bounces the
\* applied directive.
Line(d) ==
  /\ At(d) /\ Resolved(d, at)
  /\ LET now == IF Kind(d) = "dep" THEN Things(d) ELSE {Body(d)[at].it}
     IN tree' = [i \in Items |-> IF i \in now THEN Written(d, tree[i]) ELSE tree[i]]
  /\ journal' = journal \o Journaled(d)
  /\ IF Kind(d) = "capture"
     THEN \E v \in Values : bound' = [bound EXCEPT ![Body(d)[at].it] = v]
     ELSE UNCHANGED bound
  /\ fired' = IF Kind(d) \in SideEffects /\ at = 1 THEN fired \cup {d} ELSE fired
  /\ IF AtLast(d)
     THEN /\ torn' = torn \ {d}
          /\ \/ Pass /\ UNCHANGED faults
             \/ Bounce /\ Faulty
     ELSE at' = at + 1 /\ UNCHANGED <<pc, deferred, tasks, torn, faults>>
  /\ UNCHANGED <<phase, before, runs>>

\* What a line that throws may leave: a failed "git show > file" an empty file,
\* a failed copy or command its effect or nothing, a failed write nothing.
Half(d) ==
  LET i == Body(d)[at].it
      now == IF Kind(d) = "dep" THEN Things(d) ELSE {i}
      none == tree
      done == [j \in Items |-> IF j \in now THEN Written(d, tree[j]) ELSE tree[j]]
  IN CASE Kind(d) = "fetch" -> {none, [tree EXCEPT ![i] = "empty"]}
       [] Kind(d) \in {"copy", "dep", "external"} -> {none, done}
       [] OTHER -> {none}

Tears(d) == torn' = IF at > 1 \/ tree' # tree THEN torn \cup {d} ELSE torn

LineFails(d) ==
  /\ At(d) /\ Resolved(d, at) /\ Faulty
  /\ tree' \in Half(d)
  /\ Tears(d)
  /\ \/ UNCHANGED fired
     \/ Kind(d) \in SideEffects /\ fired' = fired \cup {d}
  /\ Bounce
  /\ UNCHANGED <<phase, bound, journal, before, runs>>

Return ==
  /\ phase = "applying" /\ pc > Len(Script)
  /\ phase' = "done"
  /\ UNCHANGED <<tree, pc, at, bound, deferred, tasks, journal, fired, before, torn, runs, faults>>

\* The process dies: what it has done stays, the result and its journal do not.
Killed ==
  /\ phase = "applying" /\ Faulty
  /\ IF at > 0 THEN tree' \in Half(pc) /\ Tears(pc) ELSE UNCHANGED <<tree, torn>>
  /\ phase' = "idle" /\ journal' = <<>>
  /\ UNCHANGED <<pc, at, bound, deferred, tasks, fired, before, runs>>

---------------------------------------------------------------------------
(* removeSkill: the journal played backwards *)

RemoveSkill ==
  /\ phase = "done"
  /\ phase' = "removing"
  /\ UNCHANGED <<tree, pc, at, bound, deferred, tasks, journal, fired, before, torn, runs, faults>>

\* A file is deleted, every equal line and every line of the key filtered out,
\* the packages removed, the undo command run.
Undo ==
  /\ phase = "removing" /\ journal # <<>>
  /\ tree' = [tree EXCEPT ![Last(journal)[2]] = "absent"]
  /\ journal' = Front(journal)
  /\ UNCHANGED <<phase, pc, at, bound, deferred, tasks, fired, before, torn, runs, faults>>

\* An undo command that throws ends the removal.
UndoFails ==
  /\ phase = "removing" /\ journal # <<>> /\ Faulty
  /\ Kind(Last(journal)[1]) \in {"dep", "external"}
  /\ phase' = "idle" /\ journal' = <<>>
  /\ UNCHANGED <<tree, pc, at, bound, deferred, tasks, fired, before, torn, runs>>

SkillsNext ==
  \/ Begin \/ Return \/ Killed \/ RemoveSkill \/ Undo \/ UndoFails
  \/ \E d \in Directives :
       \/ Unguarded(d) \/ Prompt(d) \/ Operator(d) \/ Weigh(d)
       \/ LineUnresolved(d) \/ Line(d) \/ LineFails(d)

SkillsSpec == SkillsInit /\ [][SkillsNext]_skillVars
---------------------------------------------------------------------------
\* A directive of this run that nothing excuses: its guard is met, the caller
\* does not perform it, it is no append of whose lines an unfinished run or the
\* operator left the first, and no fetch of which a failed one left empty files.
Owed(d) ==
  /\ Kind(d) \in Lasting \ SkipEffects /\ GuardMet(d)
  /\ Kind(d) \in {"append", "fetch"} => d \notin torn
  /\ Kind(d) = "append" => tree[Body(d)[1].it] # "mine"
There(d) == \A t \in Things(d) : tree[t] \notin {"absent", "empty"}

\* A skill that is applied again after runs that failed, were killed or were
\* removed never puts a line there twice, and when the result says "fully
\* applied" everything the skill owes is there.
\* (selfStatus, applyOne, fullyApplied)
CompleteIsThere ==
  /\ \A i \in Items : tree[i] # "twice"
  /\ phase = "done" /\ deferred = {} /\ tasks = {} =>
       \A d \in Directives : Owed(d) => There(d)

\* A restart, a pairing step or a wiring fires only on ground that holds:
\* everything the directives before it owe is there, or waits for an answer.
\* (the run-health gate "blocked" of applySkill)
GroundHolds ==
  [][\A d \in fired' \ fired : \A e \in Directives :
       e < d /\ Owed(e) /\ e \notin deferred => There(e)]_skillVars

\* Removing a run from its journal takes away what the run brought and leaves
\* what was there: of what was missing nothing stays, except of files,
\* packages and commands that stopped half-way, which the journal does not
\* know; and of a directive that found all its things nothing goes.
\* (journal in applyOne, removeSkill)
RemoveUndoes ==
  phase = "removing" /\ journal = <<>> =>
    \A d \in Directives : Kind(d) \in Lasting =>
      /\ d \notin torn \/ Kind(d) \in {"append", "env-set", "json-merge"} =>
           \A t \in Things(d) : before[t] = "absent" => tree[t] = "absent"
      /\ Kind(d) # "external" /\ (\A t \in Things(d) : before[t] \notin {"absent", "empty"}) =>
           \A t \in Things(d) : tree[t] = before[t]
=============================================================================
