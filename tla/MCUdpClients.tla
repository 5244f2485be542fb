---------------------------- MODULE MCUdpClients ----------------------------
(***************************************************************************)
(* UdpClients with two DHCP servers, a BOOTP server, a ProxyDHCP server    *)
(* and three PXE boot servers, one of them not in the list, and with two   *)
(* files, or versions of a file, that a SLAM server sends.                 *)
(***************************************************************************)
EXTENDS UdpClients

CONSTANTS s1, s2, s3, a1, a2, a3, b1, b2, b3

Offer(from, ip, vci, pxe, priority, nopxe, bootp) ==
    [server |-> from, ip |-> ip, vci |-> vci, pxe |-> pxe, priority |-> priority,
     nopxe |-> nopxe, bootp |-> bootp]

\* s1 is a plain DHCP server, s2 one that also has PXE options and a higher
\* priority, s3 a ProxyDHCP server; the BOOTP server does not name itself.
MCOffers ==
    {Offer(s1, a1, FALSE, FALSE, 0, FALSE, FALSE), Offer(s2, a2, TRUE, TRUE, 1, FALSE, FALSE),
     Offer(s1, a3, FALSE, FALSE, 0, TRUE, FALSE),
     Offer(s3, NoAddr, TRUE, FALSE, 0, FALSE, FALSE),
     Offer(NoAddr, a3, FALSE, FALSE, 0, FALSE, TRUE)}
MCServerList == <<b1, b2>>

TwoFiles ==
    {[id |-> 1, total_bytes |-> 3, block_size |-> 1],
     [id |-> 2, total_bytes |-> 3, block_size |-> 2]}
=============================================================================
