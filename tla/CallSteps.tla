----------------------------- MODULE CallSteps ------------------------------
(***************************************************************************)
(* A C function as the sequence of its steps, as far as what it holds and  *)
(* what it tells its caller go: memory, sockets, handles, threads, locks,  *)
(* and the flags and results that stand for something done. A step has one *)
(* or several outcomes: it takes things, releases them, goes on at another *)
(* step, or ends the function with a verdict after what its goto label     *)
(* releases.                                                               *)
(***************************************************************************)
LOCAL INSTANCE Integers
LOCAL INSTANCE Sequences

Outcome(takes, frees, next, verdict) ==
  [takes |-> takes, frees |-> frees, next |-> next, verdict |-> verdict]
Goes(takes, frees) == Outcome(takes, frees, 1, "")
Ends(frees, verdict) == Outcome({}, frees, 0, verdict)

\* outs: what may come of the step; uses: what it reads, that must be there;
\* locks: a lock it waits for; calls: the function it calls, and gets what the
\* caller holds the callee's result as; when: what must be there to go on at the
\* next step, and not in the other way.
Nothing == [outs |-> {Goes({}, {})}, uses |-> {}, locks |-> {}, calls |-> "",
            gets |-> {}, when |-> {}]
Does(outs) == [Nothing EXCEPT !.outs = outs]

\* It cannot fail, or its failure is an assertion.
Take(r) == Does({Goes({r}, {})})
TakeAll(rs) == Does({Goes(rs, {})})
Free(rs) == Does({Goes({}, rs)})
Lock(l) == [Nothing EXCEPT !.outs = {Goes({l}, {})}, !.locks = {l}]
Use(rs) == [Nothing EXCEPT !.uses = rs]
\* What is released here becomes a part of what is held already, or another
\* thing.
Into(rs) == Free(rs)
Becomes(r, s) == Does({Goes({s}, {r})})
\* A flag, that may be set already.
Set(r) == Does({Goes({r}, {r})})

\* It may fail; then rs is released and the function returns.
Try(r, rs) == Does({Goes({r}, {}), Ends(rs, "failed")})
Check(rs) == Does({Goes({}, {}), Ends(rs, "failed")})
\* It may fail, and the function returns CHIAKI_ERR_SUCCESS all the same.
TryOk(r, rs) == Does({Goes({r}, {}), Ends(rs, "ok")})
Enough(rs) == Does({Goes({}, {}), Ends(rs, "ok")})
\* Its failure changes nothing but what is held.
Maybe(r) == Does({Goes({r}, {}), Goes({}, {})})
MayFree(r) == Does({Goes({}, {r}), Goes({}, {})})
\* The code goes one way or the other, by what it cannot tell here.
Skip(n) == Does({Goes({}, {}), Outcome({}, {}, 1 + n, "")})
Jump(n) == Does({Outcome({}, {}, 1 + n, "")})
Again(n) == Does({Goes({}, {}), Outcome({}, {}, -n, "")})
Back(n) == Does({Outcome({}, {}, -n, "")})
Until(rs, n) == [Again(n) EXCEPT !.when = rs]
OnlyIf(rs, n) == [Skip(n) EXCEPT !.when = rs]
Needs(rs, frees) == [Check(frees) EXCEPT !.when = rs]
Fail(rs) == Does({Ends(rs, "failed")})
Return(rs) == Does({Ends(rs, "ok")})

\* The callee's failure is the caller's, or makes it go on elsewhere, or it is
\* ignored. What the callee gives is held as gets.
Call(f, gets, rs) ==
  [Nothing EXCEPT !.calls = f, !.gets = gets, !.outs = {Goes({}, {}), Ends(rs, "failed")}]
CallElse(f, gets, n) ==
  [Nothing EXCEPT !.calls = f, !.gets = gets,
                  !.outs = {Goes({}, {}), Outcome({}, {}, 1 + n, "")}]
CallAnyway(f, gets) ==
  [Nothing EXCEPT !.calls = f, !.gets = gets, !.outs = {Goes({}, {})}]

\* A function: its steps; what it gives its caller when it succeeds, and only
\* then; what belongs to an object that has another function to release it;
\* what it releases only if it is there (free(NULL), or a condition); and what
\* it sets to NULL as it releases it.
Function(steps, gives, members, null, nulls) ==
  [steps |-> steps, gives |-> gives, members |-> members, null |-> null, nulls |-> nulls]
Simple(steps) == Function(steps, {}, {}, {}, {})

\* Taking and giving back a lock around something.
Locked(l, steps) == <<Lock(l)>> \o steps \o <<Free({l})>>
\* if(session->main_should_stop) ... return CHIAKI_ERR_CANCELED
IfStopped(rs) ==
  <<Lock("stop_mutex"),
    Does({Goes({}, {"stop_mutex"}), Ends(rs \cup {"stop_mutex"}, "failed")})>>

\* Things that are left behind, released twice, ... by the function f.
Fault(kind, f, things) == {kind} \X {f} \X things
=============================================================================
