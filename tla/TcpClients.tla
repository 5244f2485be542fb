----------------------------- MODULE TcpClients -----------------------------
(***************************************************************************)
(* The clients that run over TCP, one at a time as the foreground job: the *)
(* download of a tcp:// URI, of which Download models every object, or a   *)
(* request of module Http or Ftp.                                          *)
(***************************************************************************)
EXTENDS Download, Http, Ftp

clientVars == <<vars, httpVars, ftpVars>>

\* A job that was never started does nothing.
NoDownload ==
    /\ sys = NoObjects /\ todo = <<>> /\ rc = "ok" /\ job = 0
    /\ result = [n \in Jobs |-> "err"] /\ complete = {}
NoHttp ==
    /\ http = http_close(http_open_filter("download"), "error") /\ wire = <<>> /\ fin = FALSE
    /\ site = [auth |-> "none", refusals |-> 0, requests |-> 0, reads |-> 0]
NoFtp == ftp = ftp_done(ftp_open, "error") /\ control = NoChannel /\ data = NoChannel

ClientsInit ==
    \/ Init /\ NoHttp /\ NoFtp
    \/ HttpInit /\ NoDownload /\ NoFtp
    \/ FtpInit /\ NoDownload /\ NoHttp

ClientsNext ==
    \/ Next /\ UNCHANGED <<httpVars, ftpVars>>
    \/ HttpNext /\ UNCHANGED <<vars, ftpVars>>
    \/ FtpNext /\ UNCHANGED <<vars, httpVars>>

ClientsSpec ==
    /\ ClientsInit /\ [][ClientsNext]_clientVars
    /\ Fairness /\ HttpFairness /\ FtpFairness

-----------------------------------------------------------------------------
(* Properties.                                                             *)

\* A download that ends with success has the whole file, and a command for a
\* drive the blocks that were asked for.  The statuses of many closes are 0: of
\* a socket that is redirected, of a connection at the end of its data, of the
\* channels of an FTP session.  None is taken for success when data is missing.
SuccessMeansAll == SuccessMeansComplete /\ HttpSuccessMeansWhole /\ FtpSuccessMeansWhole

\* Every request of HTTP and FTP, and every command for a drive, ends: nothing
\* waits for a channel that is closed, a timer that is stopped or a process
\* that is not scheduled.
RequestsEnd == []<>(~Busy /\ ftp.rc # "open")
=============================================================================
