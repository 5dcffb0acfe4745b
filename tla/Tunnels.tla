------------------------------ MODULE Tunnels ------------------------------
(***************************************************************************)
(* What the relay promises of its streams, without saying how: a stream is *)
(* a tunnel between one client and one daemon connection.  Ids are handed  *)
(* out in order and never again, a tunnel never changes its ends, a        *)
(* session is never an end of more tunnels than its cap allows, and        *)
(* tunnels go one at a time or all those of a session together.            *)
(***************************************************************************)
EXTENDS Integers, FiniteSets

CONSTANTS
  Sides,    \* the sessions
  Pairs,    \* the possible ends of a tunnel: [client, daemon]
  Cap(_),   \* how many tunnels a session may carry
  Unused    \* the ends of an id that was not handed out

VARIABLES
  last,   \* the id handed out last
  open,   \* the tunnels
  ends    \* id -> its ends, for every id ever handed out

tunnelVars == <<last, open, ends>>

TunnelsOf(s) == {id \in open : s \in {ends[id].client, ends[id].daemon}}

TunnelInit ==
  /\ last = 0
  /\ open = {}
  /\ ends = [id \in DOMAIN ends |-> Unused]

\* A new tunnel, for which both ends have room
Dig(p) ==
  /\ last + 1 \in DOMAIN ends
  /\ \A s \in {p.client, p.daemon} : Cardinality(TunnelsOf(s)) < Cap(s)
  /\ last' = last + 1
  /\ open' = open \cup {last + 1}
  /\ ends' = [ends EXCEPT ![last + 1] = p]

Fill(id) ==
  /\ open' = open \ {id}
  /\ UNCHANGED <<last, ends>>

\* A session went away with everything it carried
FillAllOf(s) ==
  /\ open' = open \ TunnelsOf(s)
  /\ UNCHANGED <<last, ends>>

TunnelNext ==
  \/ \E p \in Pairs : Dig(p)
  \/ \E id \in open : Fill(id)
  \/ \E s \in Sides : FillAllOf(s)

TunnelSpec == TunnelInit /\ [][TunnelNext]_tunnelVars
=============================================================================
