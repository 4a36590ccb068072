------------------------------ MODULE Process -------------------------------
(* The threads of a process, which the components of the runtime share. *)
CONSTANTS
  Threads,    \* the threads of the process
  NoThread    \* no thread: a free lock, an object nobody deallocates
=============================================================================
