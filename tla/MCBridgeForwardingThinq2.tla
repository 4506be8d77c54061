----------------------- MODULE MCBridgeForwardingThinq2 -----------------------
(***************************************************************************)
(* BridgeForwarding with ThinQ2 appliances, whose addresses are known.     *)
(* Three instances in one run, told apart by `setting`: one appliance      *)
(* whose entry is added or moved, with faults; two appliances that take    *)
(* turns at one entry; and one appliance between two entries, of which one *)
(* has its address.  The last two begin registered and have no faults.     *)
(***************************************************************************)
EXTENDS TLC

CONSTANTS i1, i2, x1, e1, e2, n1, n2, k1, None, Unlisted, NoBridge

VARIABLES present, closing, entry, released, live, archive, intent, bridge,
          syncs, job, placed, faults, saved,
          setting

Address == INSTANCE BridgeForwarding WITH
    Ids <- {i1}, Thinq1 <- {}, Elsewhere <- {x1}, Entries <- {e1}, Devs <- {n1, n2},
    Keys <- {k1}, MaxRegs <- 2, MaxPlaced <- 1, MaxFaults <- 1

Linked == INSTANCE BridgeForwarding WITH
    Ids <- {i1, i2}, Thinq1 <- {}, Elsewhere <- {}, Entries <- {e1}, Devs <- {n1, n2},
    Keys <- {}, MaxRegs <- 1, MaxPlaced <- 0, MaxFaults <- 0

Between == INSTANCE BridgeForwarding WITH
    Ids <- {i1}, Thinq1 <- {}, Elsewhere <- {x1}, Entries <- {e1, e2}, Devs <- {n1, n2},
    Keys <- {}, MaxRegs <- 1, MaxPlaced <- 1, MaxFaults <- 0

Init ==
    \/ setting = "address" /\ Address!Init
    \/ setting = "linked" /\ Linked!Init /\ saved = [id \in {i1, i2} |-> 1]
    \/ /\ setting = "between" /\ Between!Init /\ saved = [id \in {i1} |-> 1]
       /\ entry[e1] # Unlisted => entry[e1].addr = i1
       /\ entry[e2] # Unlisted => entry[e2].linked = i1

Next ==
    \/ setting = "address" /\ Address!Next /\ UNCHANGED setting
    \/ setting = "linked" /\ Linked!Next /\ UNCHANGED setting
    \/ setting = "between" /\ Between!Next /\ UNCHANGED setting

Spec == Init /\ [][Next]_<<Address!vars, setting>>

\* A renewal does not attach to a device that went away during it, commands reach the
\* appliance's present connection, and what runs is what is wanted, also when an entry
\* passes from one appliance to the other, or an appliance from one entry to the other.
RunsWhatIsWanted ==
    CASE setting = "address" -> Address!RunsWhatIsWanted
      [] setting = "linked"  -> Linked!RunsWhatIsWanted
      [] setting = "between" -> Between!RunsWhatIsWanted

Symmetry == Permutations({n1, n2}) \cup Permutations({i1, i2})
=============================================================================
