---------------------------- MODULE PhysicalStore ----------------------------
(***************************************************************************)
(* Allocating physical values and then writing them, in any order and any  *)
(* number of times: what compile_machine_ir does to fill the initial       *)
(* carriers, and what every island does at run time.  Callers of the API   *)
(* may also hand in layouts of their own, which are checked first.         *)
(***************************************************************************)
EXTENDS PhysicalValues

CONSTANTS
    CarrierLimits, \* the values max_carriers may have
    Origins,       \* the origins values are allocated for
    Written,       \* the words written
    Blinds,        \* the pairs of words the first two shares may be
    Foreign        \* layouts a caller made up

ASSUME StoreAssumption ==
    /\ CarrierLimits \subseteq Nat
    /\ Origins \subseteq Word
    /\ Written \subseteq Word
    /\ \A blind \in Blinds : blind[1] \in Word /\ blind[2] \in Word
    /\ \A value \in Foreign : \A i \in 1 .. 3 :
           /\ value.shares[i].carrier \in Nat
           /\ value.shares[i].storage.multiplier \in Word
           /\ value.shares[i].storage.addend \in Word

VARIABLES
    max_carriers_, \* the allocator's limit
    next_,         \* the allocator's next carrier
    allocated_,    \* the values allocated so far
    carriers,      \* the carrier file, once allocation is over
    logical,       \* history: the word last written to each allocated value
    outcome        \* what the last call returned

storeVars == <<max_carriers_, next_, allocated_, carriers, logical, outcome>>

Allocating == carriers = << >>

StoreInit ==
    /\ max_carriers_ \in CarrierLimits
    /\ next_ = kFirstAllocatedCarrier
    /\ allocated_ = << >>
    /\ carriers = << >>
    /\ logical = << >>
    /\ outcome = "none"

Allocate ==
    /\ Allocating
    /\ HasRoom(next_, max_carriers_)
    /\ \E origin \in Origins :
           allocated_' = Append(allocated_, Allocated(next_, "Integer", origin))
    /\ next_' = next_ + kPhysicalShares
    /\ outcome' = "ok"
    /\ UNCHANGED <<max_carriers_, carriers, logical>>

RefuseAllocation ==
    /\ Allocating
    /\ ~ HasRoom(next_, max_carriers_)
    /\ outcome' = "exhausted"
    /\ UNCHANGED <<max_carriers_, next_, allocated_, carriers, logical>>

\* module.initial_carriers.assign, and the loop that writes a zero to each value.
\* Until a value is written, its carriers hold zeros and say nothing.
FinishAllocation ==
    /\ Allocating
    /\ allocated_ # << >>
    /\ carriers' = [c \in 0 .. (next_ - 1) |-> 0]
    /\ logical' = [n \in DOMAIN allocated_ |-> Refused]
    /\ outcome' = "ok"
    /\ UNCHANGED <<max_carriers_, next_, allocated_>>

Write ==
    /\ ~ Allocating
    /\ \E n \in DOMAIN allocated_, word \in Written, blind \in Blinds :
           /\ LayoutValid(allocated_[n], next_)
           /\ carriers' = write_physical_value(allocated_[n], word, blind[1], blind[2], carriers)
           /\ logical' = [logical EXCEPT ![n] = word]
    /\ outcome' = "ok"
    /\ UNCHANGED <<max_carriers_, next_, allocated_>>

CarriersOf(value) == {value.shares[i].carrier : i \in 1 .. 3}

\* A refused layout changes no carrier.  An accepted one overwrites whatever
\* allocated values it shares a carrier with.
WriteForeign ==
    /\ ~ Allocating
    /\ \E value \in Foreign, word \in Written, blind \in Blinds :
           IF LayoutValid(value, next_)
           THEN /\ carriers' = write_physical_value(value, word, blind[1], blind[2], carriers)
                /\ logical' = [n \in DOMAIN logical |->
                                  IF CarriersOf(value) \cap CarriersOf(allocated_[n]) = {}
                                  THEN logical[n] ELSE Refused]
                /\ outcome' = IF read_physical_value(value, carriers') = word
                              THEN "ok" ELSE "lost"
           ELSE outcome' = "refused" /\ UNCHANGED <<carriers, logical>>
    /\ UNCHANGED <<max_carriers_, next_, allocated_>>

StoreNext == Allocate \/ RefuseAllocation \/ FinishAllocation \/ Write \/ WriteForeign

StoreSpec == StoreInit /\ [][StoreNext]_storeVars

-----------------------------------------------------------------------------
\* Every allocated value reads back as the word last written to it, whatever
\* its family, its maps and its blinding shares are and whatever was written to
\* other values since (allocate, split_value, AffineMap::inverse, join_shares).
ReadsBack ==
    \A n \in DOMAIN logical :
        logical[n] # Refused => read_physical_value(allocated_[n], carriers) = logical[n]

\* The carriers handed out lie above the ABI window and below the limit, and no
\* carrier belongs to two shares; an allocation is refused only when fewer than
\* three carriers are left (the test before the subtraction in allocate).
CarriersHandedOutOnce ==
    /\ next_ = kFirstAllocatedCarrier + kPhysicalShares * Len(allocated_)
    /\ allocated_ # << >> => next_ <= max_carriers_
    /\ \A n, m \in DOMAIN allocated_ : \A i, j \in 1 .. 3 :
           /\ allocated_[n].shares[i].carrier \in kFirstAllocatedCarrier .. (next_ - 1)
           /\ allocated_[n].shares[i].carrier = allocated_[m].shares[j].carrier
                  => n = m /\ i = j
    /\ outcome = "exhausted" => max_carriers_ - next_ < kPhysicalShares

\* A layout accepted by validate_physical_layout loses nothing that is written
\* through it.
AcceptedLayoutsHold == outcome # "lost"
=============================================================================
