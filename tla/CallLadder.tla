----------------------------- MODULE CallLadder -----------------------------
(***************************************************************************)
(* One thread runs through the functions of Calls, in which any step that  *)
(* may fail does, MaxFailures times at most. What it holds is looked at    *)
(* whenever a function returns: the error paths of the code are what this  *)
(* is about, and the composition of functions whose caller relies on what  *)
(* the callee says.                                                        *)
(*                                                                         *)
(* Faults names what the code leaves behind, releases twice, waits for or  *)
(* uses though it is not there, and does in no other place.                *)
(***************************************************************************)
EXTENDS Integers, Sequences, FiniteSets, CallSteps

CONSTANTS Calls,    \* the functions, by their names
          Roots,    \* the functions that are called from outside
          Faults,   \* <<kind, function, thing>>: the ones that are known
          Mutexes,  \* the locks that are waited for
          MaxFailures

VARIABLES stack,    \* the functions that are running, and where each one is
          held,     \* what is held
          dangling, \* what was released and is still pointed to
          failures  \* how many steps have failed

ladderVars == <<stack, held, dangling, failures>>

Verdicts == {"", "ok", "failed"}
Frame(f) == [f |-> f, at |-> 1, verdict |-> ""]
Top == stack[Len(stack)]
Code == Calls[Top.f]
AtStep == Code.steps[Top.at]
Running == Top.verdict = "" /\ Top.at <= Len(Code.steps)

Takes(s) == UNION {o.takes : o \in s.outs} \cup s.gets
\* What the steps of a function take into its own hands.
Own(f) == UNION {Takes(Calls[f].steps[i]) : i \in DOMAIN Calls[f].steps}

LadderConstantsOK ==
  /\ MaxFailures \in Nat
  /\ Roots \subseteq DOMAIN Calls
  /\ Mutexes = UNION {UNION {Calls[f].steps[i].locks : i \in DOMAIN Calls[f].steps} :
                        f \in DOMAIN Calls}
  /\ \A f \in DOMAIN Calls : \A i \in DOMAIN Calls[f].steps :
       /\ Calls[f].steps[i].calls \in DOMAIN Calls \cup {""}
       /\ \A o \in Calls[f].steps[i].outs :
            o.verdict = "" => i + o.next \in 1..(Len(Calls[f].steps) + 1)

-----------------------------------------------------------------------------
(* Steps                                                                   *)

Init ==
  /\ \E f \in Roots : stack = <<Frame(f)>>
  /\ held = {}
  /\ dangling = {}
  /\ failures = 0

\* A function after the outcome o of the step it is at.
Moved(frame, o) ==
  [frame EXCEPT !.at = @ + o.next,
                !.verdict = IF o.verdict # "" THEN o.verdict
                            ELSE IF frame.at + o.next > Len(Calls[frame.f].steps) THEN "ok"
                            ELSE ""]

\* A failure ends the function, or leaves it without what it might have had.
Failing(s, o) ==
  o.verdict = "failed" \/ (o.takes = {} /\ \E other \in s.outs : other.takes # {})

\* A step that calls nothing. A lock that is held is waited for.
Step ==
  /\ Running
  /\ AtStep.calls = ""
  /\ AtStep.locks \cap held = {}
  /\ \E o \in AtStep.outs :
       /\ AtStep.when # {} => (o = Goes({}, {})) = (AtStep.when \subseteq held)
       /\ failures' = failures + (IF Failing(AtStep, o) THEN 1 ELSE 0)
       /\ failures' <= MaxFailures
       /\ stack' = [stack EXCEPT ![Len(stack)] = Moved(Top, o)]
       /\ held' = (held \ o.frees) \cup o.takes
       /\ dangling' = (dangling \cup ((o.frees \cap held) \ Code.nulls)) \ o.takes

Enter ==
  /\ Running
  /\ AtStep.calls # ""
  /\ stack' = Append(stack, Frame(AtStep.calls))
  /\ UNCHANGED <<held, dangling, failures>>

\* The top function returns; its own variables are gone with it, but not
\* a lock it has kept, and its caller goes on with what it was given, or in
\* another way.
Leave ==
  /\ Top.verdict # ""
  /\ Len(stack) > 1
  /\ LET caller == stack[Len(stack) - 1]
         step == Calls[caller.f].steps[caller.at]
         otherwise == step.outs \ {Goes({}, {})}
         o == IF Top.verdict = "failed" /\ otherwise # {} THEN CHOOSE x \in otherwise : TRUE
              ELSE Goes({}, {})
         local == Own(Top.f) \ (Code.members \cup Mutexes)
         given == IF Top.verdict = "ok" /\ Code.gives \subseteq held THEN step.gets ELSE {}
         rest == (held \ local) \cup given
     IN /\ stack' = Append(SubSeq(stack, 1, Len(stack) - 2), Moved(caller, o))
        /\ held' = rest \ o.frees
        /\ dangling' = ((dangling \ local) \cup ((rest \cap o.frees) \ Calls[caller.f].nulls))
                       \ given
  /\ UNCHANGED failures

Next == Step \/ Enter \/ Leave

-----------------------------------------------------------------------------
(* Properties                                                              *)

TypeOK ==
  /\ Len(stack) \in 1..12
  /\ \A i \in DOMAIN stack : /\ stack[i].f \in DOMAIN Calls
                             /\ stack[i].verdict \in Verdicts
                             /\ stack[i].at \in 0..(Len(Calls[stack[i].f].steps) + 1)
  /\ held \subseteq STRING
  /\ dangling \cap held = {}
  /\ failures \in 0..MaxFailures

Known(kind, f, rs) == \A r \in rs : <<kind, f, r>> \in Faults

\* A function that returns has released what it took, except what it gives its
\* caller, and nothing is given by one that failed. At the end of a root, which
\* finishes the objects it made, nothing at all is left.
NothingLeft ==
  Top.verdict # "" =>
    LET left == IF Len(stack) = 1 THEN held ELSE held \cap Own(Top.f)
        allowed == IF Top.verdict = "ok" THEN Code.members \cup Code.gives
                   ELSE Code.members \ Code.gives
    IN Known("left", Top.f, left \ allowed)

\* A function that says it succeeded gives what it was called for.
SuccessGives ==
  Top.verdict = "ok" => Known("missing", Top.f, Code.gives \ held)

\* What is released is held, or is NULL where NULL may be released: never what
\* was released before.
ReleasedOnce ==
  Running => \A o \in AtStep.outs :
    Known("twice", Top.f,
          IF AtStep.calls # "" THEN {}
          ELSE {r \in o.frees \ (held \cup o.takes) : r \in dangling \/ r \notin Code.null})

\* What is used is there.
UsedWhileHeld == Running => Known("used", Top.f, AtStep.uses \ held)

\* Nobody waits for a lock it holds itself, and no pointer to something held is
\* overwritten.
NoSelfDeadlock == Running => Known("waits", Top.f, AtStep.locks \cap held)
NothingOverwritten ==
  Running => \A o \in AtStep.outs :
    Known("lost", Top.f, (o.takes \cap held) \ (o.frees \cup AtStep.locks))
=============================================================================
