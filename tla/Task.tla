-------------------------------- MODULE Task --------------------------------
(***************************************************************************)
(* cppevent_base: task, the coroutine frame behind it and final_awaiter,   *)
(* as functions of one frame.                                              *)
(*                                                                         *)
(* owned says that a task object exists whose destructor will destroy the  *)
(* frame, m_linked is the flag of the promise, and m_outer the coroutine   *)
(* that awaits the frame.  Values and exceptions pass from a frame to the  *)
(* one that awaits it in one step and are not kept.                        *)
(***************************************************************************)
CONSTANT Noop   \* std::noop_coroutine

Free == [state |-> "free", m_linked |-> FALSE, owned |-> FALSE,
         m_outer |-> Noop]

\* A call: initial_suspend never suspends, so the body runs at once.
Called == [state |-> "running", m_linked |-> TRUE, owned |-> TRUE,
           m_outer |-> Noop]

\* The body reaches a co_await of a callback that has no status.
Suspend(f) == [f EXCEPT !.state = "suspended"]

await_suspend(f, handle) == [f EXCEPT !.m_outer = handle]

\* Mutant: an unlinked frame stops at its end like any other.
FinalSuspend_always(f) == [f EXCEPT !.state = "done", !.m_outer = Noop]

\* The end of the body, by a value or by an exception that the promise
\* keeps: a linked frame stops there and its m_outer is resumed, an unlinked
\* one runs off its end and is gone.
FinalSuspend(f) ==
    IF f.m_linked THEN [f EXCEPT !.state = "done", !.m_outer = Noop] ELSE Free

unlink(f) == [f EXCEPT !.m_linked = FALSE, !.owned = FALSE]

\* ~task.
Destruct(f) == IF f.owned THEN Free ELSE f

============================================================================
