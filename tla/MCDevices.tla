------------------------------- MODULE MCDevices -------------------------------
(***************************************************************************)
(* A device with its chain of three and a session; two rows of a group and *)
(* of each kind of table, so that deleting one can hurt the other; three   *)
(* updates, so that a third is compared with the first and not the second; *)
(* the slot that runs and one to install into; certificates that run out   *)
(* in the order they do, within the bound of the clocks.                   *)
(***************************************************************************)
EXTENDS Devices, TLC

CONSTANTS agent, root, user, session

MCMembers == {agent, root, user, session}
MCCertificateType == (agent :> "Agent") @@ (root :> "Root") @@ (user :> "User")
                     @@ (session :> "UserSession")
MCChain == {agent, root, user}
MCAdders == {root, user}
MCMetaCreators == {user}
MCSlots == <<"a", "b">>
MCValidityDuration == [Root |-> 3, Server |-> 3, Agent |-> 2, UserSession |-> 1]
================================================================================
