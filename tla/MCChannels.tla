----------------------------- MODULE MCChannels -----------------------------
(* Model-checking instance of the wire channel and of the P2P channel.  A  *)
(* program runs one of them: neither module reads the other's state.       *)
EXTENDS WireControls, P2PTransfers

ChannelsInit == Init /\ TransferInit

ChannelsNext ==
    \/ TransferInit /\ Next /\ UNCHANGED transferVars
    \/ Init /\ TransferNext /\ UNCHANGED wireVars

ChannelsSpec == ChannelsInit /\ [][ChannelsNext]_<<wireVars, transferVars>>

PartySymmetry ==
    Permutations(Payers) \cup Permutations(Suppliers) \cup Permutations(Accounts)
=============================================================================
