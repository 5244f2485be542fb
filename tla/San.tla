-------------------------------- MODULE San --------------------------------
(***************************************************************************)
(* The two ways to a drive on the network: the commands of an iSCSI        *)
(* session, or the Infiniband reliable connection that SRP uses, which is  *)
(* tried when there is no session.                                         *)
(***************************************************************************)
EXTENDS IbConnect, Iscsi

sanVars == <<ib, iscsi>>

NoSession == Freed(New("none"))

SanInit == IbInit /\ (IscsiInit \/ iscsi = NoSession)

SanNext ==
    \/ IscsiNext /\ UNCHANGED ib
    \/ iscsi = NoSession /\ IbNext /\ UNCHANGED iscsi

SanSpec == SanInit /\ [][SanNext]_sanVars /\ IbFairness /\ IscsiFairness

-----------------------------------------------------------------------------
(* Properties.                                                             *)

\* No attempt to reach a drive goes on for ever: every connection attempt and
\* every path lookup on Infiniband ends, and so do the login to an iSCSI target
\* and every command for it, without the help of INT 13's timer.  Whatever is
\* to be sent is sent, and whatever is answered is received.
DrivesAnswer == AttemptsEnd /\ []<>SessionIdle
=============================================================================
