-------------------------- MODULE MCOutboundEmail --------------------------
(***************************************************************************)
(* Small instances of OutboundEmail: one or two leads, one or two          *)
(* concurrent invocations of send_emails, one operator.                    *)
(***************************************************************************)
EXTENDS OutboundEmail, TLC

\* The senders are interchangeable.
SenderSymmetry == Permutations(TitanSender)
=============================================================================
