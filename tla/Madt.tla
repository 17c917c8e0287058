-------------------------------- MODULE Madt --------------------------------
(***************************************************************************)
(* lib/acpi/madt.cpp and ioapic_route_irq() of drivers/apic/apic.cpp: the  *)
(* records of the firmware's table are read one by one, then the keyboard's *)
(* IRQ is routed to a pin of an I/O APIC.  The table is any sequence of    *)
(* records a firmware may hold: I/O APICs with disjoint ranges, at most    *)
(* one override for an IRQ, in any order.                                  *)
(***************************************************************************)
EXTENDS Integers, Sequences, FiniteSets, FiniteSetsExt

CONSTANTS
    Pins,         \* IOAPIC_MAX_ENTRIES
    Irqs,         \* legacy IRQs that may be overridden
    Gsis,         \* targets of overrides
    Bases,        \* gsi_base values: multiples of Pins
    MaxRecords    \* bound on the length of the table

ASSUME MadtAssumption ==
    /\ Pins \in Nat \ {0} /\ MaxRecords \in Nat
    /\ Irqs \subseteq Nat /\ Gsis \subseteq Nat /\ Bases \subseteq Nat
    /\ 1 \in Irqs              \* the keyboard's

VARIABLES ioapics, overrides, lapic_addr, redirections, route_panicked

madtVars == <<ioapics, overrides, lapic_addr, redirections, route_panicked>>

IRQ_KEYBOARD == 1

HeaderAddr   == "header"      \* madt->lapic_addr
OverrideAddr == "override"    \* lapic_addr of a LocalApicAddressOverride

Conforms  == 0                \* values of iso->flags and the parts of an entry
ActiveLow == 3
Level     == 12
Flags     == {Conforms, ActiveLow, Level, ActiveLow + Level}

MadtInit ==
    /\ ioapics = <<>> /\ overrides = <<>>
    /\ lapic_addr = HeaderAddr
    /\ redirections = {} /\ route_panicked = FALSE

MoreRecords ==
    Len(ioapics) + Len(overrides) < MaxRecords /\ redirections = {} /\ ~route_panicked

-----------------------------------------------------------------------------
(* parse(): one action per type of record that changes something.          *)

parse_ioapic ==
    /\ MoreRecords
    /\ \E base \in Bases :
         /\ \A i \in DOMAIN ioapics : ioapics[i] # base
         /\ ioapics' = Append(ioapics, base)
    /\ UNCHANGED <<overrides, lapic_addr, redirections, route_panicked>>

parse_ioapic_iso ==
    /\ MoreRecords
    /\ \E source \in Irqs, gsi \in Gsis, flags \in Flags :
         /\ \A i \in DOMAIN overrides : overrides[i].source # source
         /\ overrides' = Append(overrides, [source |-> source, gsi |-> gsi, flags |-> flags])
    /\ UNCHANGED <<ioapics, lapic_addr, redirections, route_panicked>>

parse_lapic_addr_override ==
    /\ MoreRecords
    /\ lapic_addr' = OverrideAddr
    /\ UNCHANGED <<ioapics, overrides, redirections, route_panicked>>

-----------------------------------------------------------------------------
\* The overrides of an IRQ, by their places; get_override_for_irq() returns the
\* first.
OverridesFor(irq) == {i \in DOMAIN overrides : overrides[i].source = irq}

get_override_for_irq(irq) == overrides[Min(OverridesFor(irq))]

get_gsi_for_irq(irq) ==
    IF OverridesFor(irq) # {} THEN get_override_for_irq(irq).gsi ELSE irq

\* Mutant: the first I/O APIC that starts at or below the GSI.
Bug_no_upper_bound(gsi) == {i \in DOMAIN ioapics : gsi >= ioapics[i]}

\* The I/O APICs that have the GSI, of which the first is returned.
get_ioapic_for_gsi(gsi) ==
    {i \in DOMAIN ioapics : gsi >= ioapics[i] /\ gsi < ioapics[i] + Pins}

\* The redirection entry of an IRQ that is on pin gsi - base.
Redirection(irq, base, gsi, flags) ==
    [irq |-> irq, ioapic |-> base, pin |-> gsi - base,
     low |-> flags % 4 = ActiveLow, level |-> flags \div 4 = 3]

ioapic_route_irq(irq) ==
    LET gsi   == get_gsi_for_irq(irq)
        found == get_ioapic_for_gsi(gsi)
        flags == IF OverridesFor(irq) # {} THEN get_override_for_irq(irq).flags ELSE Conforms
    IN  /\ ~route_panicked
        /\ \A r \in redirections : r.irq # irq
        /\ IF found = {}
           THEN route_panicked' = TRUE /\ UNCHANGED redirections
           ELSE /\ redirections' = redirections \cup
                     {Redirection(irq, ioapics[Min(found)], gsi, flags)}
                /\ UNCHANGED route_panicked
        /\ UNCHANGED <<ioapics, overrides, lapic_addr>>

MadtNext ==
    \/ parse_ioapic \/ parse_ioapic_iso \/ parse_lapic_addr_override
    \/ ioapic_route_irq(IRQ_KEYBOARD)

MadtSpec == MadtInit /\ [][MadtNext]_madtVars

-----------------------------------------------------------------------------
MadtTypeOK ==
    /\ Range(ioapics) \subseteq Bases
    /\ \A iso \in Range(overrides) : iso.source \in Irqs /\ iso.gsi \in Gsis
    /\ lapic_addr \in {HeaderAddr, OverrideAddr}
    /\ \A r \in redirections : r.irq \in Irqs /\ r.ioapic \in Bases
    /\ route_panicked \in BOOLEAN

\* The entry written is the one the table means, in whatever order its records
\* came: on an I/O APIC that has the pin, for the GSI of the IRQ's override, with
\* the override's polarity and trigger mode.
RoutedAsTabled ==
    MadtTypeOK /\ \A r \in redirections :
        /\ r.pin \in 0..(Pins - 1)
        /\ \A iso \in Range(overrides) : iso.source = r.irq =>
             /\ r.ioapic + r.pin = iso.gsi
             /\ r.low = (iso.flags \in {ActiveLow, ActiveLow + Level})
             /\ r.level = (iso.flags \in {Level, ActiveLow + Level})
        /\ (\A iso \in Range(overrides) : iso.source # r.irq) =>
             r.ioapic + r.pin = r.irq /\ ~r.low /\ ~r.level
=============================================================================
