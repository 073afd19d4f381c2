----------------------------- MODULE MCReExports -----------------------------
(***************************************************************************)
(* Small merged caches for the model of the re-export propagation: two     *)
(* modules, one of which may be missing, with up to four re-exports.       *)
(***************************************************************************)
EXTENDS ReExports

NoEntries == [s \in Symbols |-> {}]

A(x) == <<"A", x>>
B(x) == <<"B", x>>

\* Entries: one name with all concerns; two names with one concern each; a safe
\* name and one with a concern.
SomeEntries ==
    {[NoEntries EXCEPT ![A("f")] = {Present, "Unsafe", "dep"}],
     [NoEntries EXCEPT ![A("f")] = {Present, "Unsafe"}, ![A("g")] = {Present, "dep"}],
     [NoEntries EXCEPT ![A("g")] = {Present}, ![A("f")] = {Present, "dep"}]}

ReExport(d, s) == [exported |-> d, imported |-> s]

Some == {A("f"), A("g"), B("f"), B("g")}

\* Chains, cycles, self-re-exports and forks, in every order.
Triples == {<<ReExport(d1, A("f")), ReExport(d2, s2), ReExport(d3, s3)>> :
               d1, d2, s2, d3, s3 \in Some}

Chain4 == {<<ReExport(A("g"), B("g")), ReExport(B("g"), B("f")), ReExport(B("f"), d), ReExport(d, A("f"))>> :
               d \in Some}

MissingB == [NoEntries EXCEPT ![A("f")] = {Present, "Unsafe"}]

SmallCaches ==
    {[modules |-> {"A", "B"}, entries |-> e, re_exports |-> r] : e \in SomeEntries, r \in Triples \cup Chain4}
    \cup {[modules |-> {"A"}, entries |-> MissingB, re_exports |-> r] : r \in Triples}

=============================================================================
