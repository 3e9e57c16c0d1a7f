--------------------------- MODULE EventCallback ---------------------------
(***************************************************************************)
(* cppevent_base: event_callback, suspended_coro and status_awaiter.       *)
(*                                                                         *)
(* An event_callback is the meeting point of one event source and one      *)
(* coroutine: an optional status (m_status_opt) and an optional suspended  *)
(* coroutine (m_suspended).  This module holds its operations as functions *)
(* from callback to callback; the modules of the event loop, of the async  *)
(* queue and of the connection pool apply them.                            *)
(*                                                                         *)
(* m_suspended folds suspended_coro's two fields into one: m_stored is     *)
(* true exactly when m_handle is not the noop coroutine.                   *)
(***************************************************************************)

CONSTANTS
    Coroutines,   \* coroutine frames; each is started at most once
    Noop,         \* std::noop_coroutine(): no handle stored
    NoStatus      \* the empty std::optional<e_status>

ASSUME NoopAssumption == Noop \notin Coroutines

----------------------------------------------------------------------------

\* A constructed callback: no status, no handle.
Fresh == [m_status_opt |-> NoStatus, m_suspended |-> Noop]

has_status(cb) == cb.m_status_opt # NoStatus

has_handle(cb) == cb.m_suspended # Noop

\* event_callback::set_handle past its check that no handle is stored.
set_handle(cb, h) == [m_status_opt |-> cb.m_status_opt, m_suspended |-> h]

\* event_callback::notify stores the status and takes the handle out; the
\* coroutine it took out is cb.m_suspended of the state before.
notify(cb, status) == [m_status_opt |-> status, m_suspended |-> Noop]

\* event_callback::reset, called by await_resume and by the destructor of
\* an awaiter that was never resumed.
reset(cb) == [m_status_opt |-> NoStatus, m_suspended |-> Noop]

\* Mutant: await_resume reads the status and leaves it in place.
resume_keep(cb, status) == notify(cb, status)

\* What is left of a callback once the coroutine that notify took out has
\* run status_awaiter::await_resume, before it does anything else.
resume(cb, status) == reset(notify(cb, status))

============================================================================
