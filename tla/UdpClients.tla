----------------------------- MODULE UdpClients -----------------------------
(***************************************************************************)
(* The clients that run over UDP, one at a time as the foreground job: a   *)
(* DHCP session with the Boot Server Discovery that may follow it, or a    *)
(* download by TFTP, MTFTP or SLAM.                                        *)
(***************************************************************************)
EXTENDS UdpDownloads, Dhcp

NoDhcp ==
    /\ dhcp = dhcp_finished(Session, "error") /\ dhcp_last_xid = 1
    /\ settings = [b \in {"dhcp", "proxydhcp", "pxebs"} |-> NoPacket]
    /\ seen = {} /\ replies = 0

ClientsInit == (xfer_open_uri /\ NoDhcp) \/ (DhcpInit /\ NoTftp /\ NoSlam)

ClientsNext ==
    \/ Next /\ UNCHANGED dhcpVars
    \/ DhcpNext /\ UNCHANGED downloadVars

ClientsSpec ==
    /\ ClientsInit /\ [][ClientsNext]_<<downloadVars, dhcpVars>>
    /\ TftpFairness /\ SlamFairness /\ DhcpFairness

\* When the servers have fallen silent every job ends: a DHCP session gives up
\* or makes do with what it has, and every download is closed.
JobsEnd == DownloadEnds /\ SessionEnds
=============================================================================
