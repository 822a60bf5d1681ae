---------------------------- MODULE MCTransferFlow ----------------------------
(* Small instances of TransferFlow for TLC. *)
EXTENDS TransferFlow

MCProposals == Flows \X (1 .. MaxTries)
MCSubmits   == (Flows \X (1 .. MaxPrompts)) \union Others

=============================================================================
