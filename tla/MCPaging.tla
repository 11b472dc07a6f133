------------------------------ MODULE MCPaging ------------------------------
(***************************************************************************)
(* Instance of Paging for TLC: four levels of two entries, so sixteen      *)
(* pages, the upper eight the kernel's.                                    *)
(***************************************************************************)
EXTENDS Paging, TLC

E(frame, flags) == [to |-> frame, flags |-> flags]

\* The boot loader maps a user page (identity), a kernel page through every
\* level, and two large pages of the kernel.
Boot ==
  100 :> (0 :> E(101, {"Writable"}) @@ 1 :> E(102, {"Writable"}))
  @@ 101 :> (0 :> E(103, {"Writable"}))
  @@ 103 :> (1 :> E(104, {"Writable"}))
  @@ 104 :> (0 :> E(2, {"Writable"}))
  @@ 102 :> (0 :> E(32, {"Writable", "PageSize"}) @@ 1 :> E(105, {"Writable"}))
  @@ 105 :> (0 :> E(106, {"Writable"}) @@ 1 :> E(48, {"PageSize"}))
  @@ 106 :> (1 :> E(7, {"NoExecute"}))

Access == {{"User", "Writable"}, {"User", "NoExecute"}}
=============================================================================
