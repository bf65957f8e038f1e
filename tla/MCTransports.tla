---------------------------- MODULE MCTransports ----------------------------
(***************************************************************************)
(* The three transports: the TCP workers of the device (TcpPool), its USB  *)
(* loop and ring (UsbRing), and the host's UDP protocol (UdpLink).  They   *)
(* share no state, so one behaviour exercises one of them, the one in      *)
(* focus, and leaves the others where they start.                          *)
(***************************************************************************)
EXTENDS TcpPool, UsbRing, UdpLink

VARIABLE focus

Components == {"tcp", "usb", "udp"}
InFocus(c) == focus = c /\ UNCHANGED focus

TransportsInit ==
  /\ focus \in Components
  /\ Init /\ UsbInit
  /\ UdpInit /\ expected \in IF focus = "udp" THEN {0, SeqMod - 2} ELSE {0}

TransportsNext ==
  \/ InFocus("tcp") /\ Next /\ UNCHANGED <<usbVars, udpVars>>
  \/ InFocus("usb") /\ UsbNext /\ UNCHANGED <<vars, udpVars>>
  \/ InFocus("udp") /\ UdpNext /\ UNCHANGED <<vars, usbVars>>

TransportsSpec ==
  /\ TransportsInit /\ [][TransportsNext]_<<focus, vars, usbVars, udpVars>>
  \* Fairness, UsbFairness and UdpFairness, each while it is in focus.
  /\ WF_vars(focus = "tcp" /\ \E ok \in BOOLEAN : AcceptHandshake(ok))
  /\ WF_vars(focus = "tcp" /\ Enqueue)
  /\ \A w \in Workers : /\ WF_vars(focus = "tcp" /\ WorkerTake(w))
                        /\ WF_vars(focus = "tcp" /\ NotifyEnqueue(w))
                        /\ WF_vars(focus = "tcp" /\ SessionEnds(w))
  /\ WF_usbVars(focus = "usb" /\ UsbThread)
  /\ WF_usbVars(focus = "usb" /\ KernelCompletes)
  /\ WF_udpVars(focus = "udp" /\ UdpHost)

----------------------------------------------------------------------------
\* A transfer returns on either packet transport, with data or with an error:
\* the ring's (usb_iouring.cpp:127) and the UDP one's with its retries
\* (udp.cpp:305).
EveryTransferEnds == TransferReturns /\ UdpTransferEnds
============================================================================
