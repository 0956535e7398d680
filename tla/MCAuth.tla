------------------------------- MODULE MCAuth -------------------------------
(* Two users, one Shadowsocks ip, one session; two calls and one event.    *)
EXTENDS Auth, TLC

AnyAddress == [g \in Segs |-> Addrs]
Symmetry == Permutations(Calls) \cup Permutations(Workers) \cup Permutations(Ips) \cup Permutations(Addrs)
              \cup Permutations(Users) \cup Permutations(Pwds)
=============================================================================
