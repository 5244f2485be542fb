---------------------------- MODULE UdpDownloads ----------------------------
(***************************************************************************)
(* Downloads over UDP: xfer_open_uri() (core/open.c) picks the opener of   *)
(* the URI's scheme, which makes one request of module Tftp or Slam.       *)
(***************************************************************************)
EXTENDS Tftp, Slam

downloadVars == <<tftpVars, slamVars>>

\* A request that was never made does nothing.
NoTftp ==
    /\ tftp = tftp_done(tftp_core_open("tftp"), "error")
    /\ buffer = <<>> /\ rrqs = {} /\ packets = 0 /\ server = [tid \in Tids |-> NoTransfer]
NoSlam == slam = slam_finished(slam_open, "error") /\ slamBuffer = <<>> /\ slamPackets = 0

xfer_open_uri == (TftpInit /\ NoSlam) \/ (SlamInit /\ NoTftp)

Next ==
    \/ TftpNext /\ UNCHANGED slamVars
    \/ SlamNext /\ UNCHANGED tftpVars

\* A download that ends with success has the whole file, each byte from its
\* place, whether tftp_rx_data() or slam_mc_deliver() found it complete.
WholeFile == SuccessMeansWhole /\ SlamSuccessMeansWhole

\* When the servers have fallen silent every download ends: the request is
\* closed and its timers are stopped (tftp_timer_expired() and
\* slam_slave_timer_expired() give up), also where the parent closed a TFTP
\* request inside tftp_presize() and tftp_send_packet() started its timer again.
DownloadEnds == RequestEnds /\ SlamEnds
=============================================================================
