--------------------------- MODULE MCDaveSessions ---------------------------
(***************************************************************************)
(* Instances of DaveSessions for TLC.                                      *)
(***************************************************************************)
EXTENDS DaveSessions

\* Frames are received in an orderly world, in one where a session turns ready,
\* and in those where frames come late and connections close at any time;
\* sending is looked at by itself.
MCEnvironments ==
    {[allows |-> {}, moves |-> 4, frames |-> 2, turns |-> 0],
     [allows |-> {}, moves |-> 4, frames |-> 1, turns |-> 1],
     [allows |-> {"LateFrames", "CloseInCompany"}, moves |-> 4, frames |-> 1, turns |-> 0],
     [allows |-> {"LateFrames"}, moves |-> 2, frames |-> 2, turns |-> 0],
     [allows |-> {"Sending", "CloseInCompany"}, moves |-> 3, frames |-> 0, turns |-> 1]}

\* A connection may close with users in its channel; a late frame may come.
InCompany == {[allows |-> {"CloseInCompany"}, moves |-> 2, frames |-> 1, turns |-> 0]}
Late == {[allows |-> {"LateFrames"}, moves |-> 2, frames |-> 1, turns |-> 0]}
=============================================================================
