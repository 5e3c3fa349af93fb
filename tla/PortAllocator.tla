---------------------------- MODULE PortAllocator ----------------------------
(***************************************************************************)
(* The source ports one core gives to its sessions (Invoker's              *)
(* get_internal_port, src/src/SeussInvoker.h).  port_ is a 16-bit counter  *)
(* that advances by the number of cores and wraps; the port is taken       *)
(* modulo the number of ports from base_port_ up.  Nothing records which   *)
(* ports are in use: a port is dedicated to a session only as long as the  *)
(* counter does not come back to it, and that is soonest where it wraps.   *)
(***************************************************************************)
EXTENDS Integers, Sequences, SequencesExt

CONSTANTS
  Space,         \* 2^16: the ports, and the values of the uint16_t port_
  base_port_,    \* 49160
  Count,         \* the number of cores
  Mine,          \* the index of this core
  Limit,         \* sessions open at once on this core
  MaxOpened      \* bound: sessions opened in all

port_range_ == Space - base_port_ - 1

ASSUME PortAssumption ==
  /\ Space \in Nat /\ base_port_ \in Nat /\ base_port_ + 1 < Space
  /\ Count \in Nat \ {0}
  /\ Mine \in 0 .. Count - 1
  /\ Limit \in Nat \ {0}
  /\ MaxOpened \in Nat

VARIABLES
  port_,     \* the counter
  open,      \* open sessions, oldest first: which session, and its counter
  opened     \* history: how many sessions have been opened

pvars == <<port_, open, opened>>

\* Mutant: the counter is set to the number of cores ("=" for "+=").
AdvanceOnce(n) == Count % Space

\* port_ += Count on a 16-bit counter.
Advance(n) == (n + Count) % Space

\* Mutant: the offset into the range is not reduced to it.
PortUnreduced(n) == base_port_ + (n + Mine)

Port(n) == base_port_ + ((n + Mine) % port_range_)

Init == port_ = 0 /\ open = <<>> /\ opened = 0

\* new_invocation_session.
NewSession ==
  /\ Len(open) < Limit
  /\ opened < MaxOpened
  /\ opened' = opened + 1
  /\ port_' = Advance(port_)
  /\ open' = Append(open, [nth |-> opened', from |-> port_'])

\* delete umsesh, in any order.
EndSession ==
  /\ \E i \in DOMAIN open : open' = RemoveAt(open, i)
  /\ UNCHANGED <<port_, opened>>

\* The bound is reached.
Finished == opened = MaxOpened /\ open = <<>> /\ UNCHANGED pvars

Next == NewSession \/ EndSession \/ Finished

Spec == Init /\ [][Next]_pvars

Session == [nth : 1 .. MaxOpened, from : 0 .. Space - 1]

TypeOK ==
  /\ port_ \in 0 .. Space - 1
  /\ opened \in 0 .. MaxOpened
  /\ open \in Seq(Session)

\* "port should be between base_port_ and MAX_UINT_16": the sum never wraps
\* around to the ports below base_port_, the well-known ones included.
PortsInRange ==
  \A i \in DOMAIN open : Port(open[i].from) \in base_port_ .. Space - 1

\* How soon a port comes back: of two open sessions of one port, the later was
\* opened so many sessions after the other that the counter advanced by what
\* the range leaves of the space: on 4 cores at least 9 (65536 % 16375 = 36 = 9 * 4).
\* Up to 9 open sessions of consecutive numbers have each a port of their own.
PortsKeptApart ==
  \A i, j \in DOMAIN open :
    /\ open[i].nth < open[j].nth
    /\ Port(open[i].from) = Port(open[j].from)
    => (open[j].nth - open[i].nth) * Count >= Space % port_range_

\* src_port_: "dedicated sender port": no two open sessions share one.
DedicatedPort ==
  \A i, j \in DOMAIN open : Port(open[i].from) = Port(open[j].from) => i = j

=============================================================================
