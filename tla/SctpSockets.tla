------------------------------- MODULE SctpSockets -------------------------------
(***************************************************************************)
(* The SCTP sockets of the gateway process, as gateway/multihoming.c uses  *)
(* them.  The kernel is outside the repository; what is modelled is the    *)
(* part the gateway depends on: the descriptor table (a closed number is   *)
(* handed out again by a later socket call), the addresses an association  *)
(* spans, the address the association sends to by preference, and the      *)
(* state reported for the configured primary path.                         *)
(***************************************************************************)
CONSTANTS
    Sessions,    \* the client connections the gateway serves, one thread each
    Fds,         \* the descriptors that SCTP sockets may get
    NoSession,   \* nobody: the descriptor is not an SCTP socket of a session
    NoFd,        \* the -1 of a descriptor variable
    Reports      \* the path states the kernel reports in the instance checked

ASSUME NoSessionAssumption == NoSession \notin Sessions
ASSUME NoFdAssumption == NoFd \notin Fds

\* net_config.c: the configured peer addresses, named by their role.
Addresses == {"primary", "secondary"}
NoAddress == "none"

Other(a) == IF a = "primary" THEN "secondary" ELSE "primary"

VARIABLES
    owner,         \* who opened the descriptor, NoSession when it is free
    paths,         \* the addresses the descriptor's association spans, {} if none
    primaryOf,     \* the primary address set for the descriptor's association
    primaryState   \* what the kernel reports of the path to the configured primary

socketVars == <<owner, paths, primaryOf, primaryState>>

SocketsInit ==
    /\ owner = [f \in Fds |-> NoSession]
    /\ paths = [f \in Fds |-> {}]
    /\ primaryOf = [f \in Fds |-> NoAddress]
    /\ primaryState \in Reports

--------------------------------------------------------------------------------
(***************************************************************************)
(* multihome_client_connect succeeds with descriptor f for session s:      *)
(* sctp_connectx was given two addresses and the association is set up     *)
(* with the first of them as its primary.  Which addresses it spans is     *)
(* what the receiver's INIT ACK says, not what sctp_connectx was given:    *)
(* both, or one, since multihome_server_create goes on when the second     *)
(* bind fails.  The second argument only matters to a setup that cannot    *)
(* reach the first, which is among the failures of Gateway's ConnectFails. *)
(***************************************************************************)
multihome_client_connect(s, f, first) ==
    /\ owner[f] = NoSession
    /\ \E A \in SUBSET Addresses :
          /\ first \in A
          /\ paths' = [paths EXCEPT ![f] = A]
    /\ owner' = [owner EXCEPT ![f] = s]
    /\ primaryOf' = [primaryOf EXCEPT ![f] = first]
    /\ UNCHANGED primaryState

\* get_path_status and switch_primary_path fail on a descriptor that is closed,
\* whose association is gone, or whose association does not span the address.
PathKnown(f, a) == a \in paths[f]

\* switch_primary_path: one setsockopt, whose failure changes nothing.
switch_primary_path(f, a) ==
    primaryOf' = IF PathKnown(f, a) THEN [primaryOf EXCEPT ![f] = a] ELSE primaryOf

\* close(sctp_fd): the number is free for the next socket the process opens.
CloseSocket(f) ==
    /\ owner' = [owner EXCEPT ![f] = NoSession]
    /\ paths' = [paths EXCEPT ![f] = {}]
    /\ primaryOf' = [primaryOf EXCEPT ![f] = NoAddress]
    /\ UNCHANGED primaryState

--------------------------------------------------------------------------------
\* The network: the report for the primary path changes, or an association is
\* aborted while its descriptor stays open.
PathReportChanges ==
    /\ primaryState' \in Reports \ {primaryState}
    /\ UNCHANGED <<owner, paths, primaryOf>>

AssociationAborts(f) ==
    /\ paths[f] # {}
    /\ paths' = [paths EXCEPT ![f] = {}]
    /\ UNCHANGED <<owner, primaryOf, primaryState>>

================================================================================
