---------------------------- MODULE StandaloneMC ----------------------------
(***************************************************************************)
(* Standalone for TLC: two children of two threads, so that the section is *)
(* contended inside a process and between processes; a negative value and  *)
(* a sum that wraps; two bursts; and the data below.                       *)
(***************************************************************************)
EXTENDS Standalone

MinusOne == -1

\* foo.bar has records of all types, it.x an A record only, and d- none.
FooBar == <<102, 111, 111, 46, 98, 97, 114>>
ItX == <<105, 116, 46, 120>>
Labels == {<< <<102, 111, 111>>, <<98, 97, 114>> >>, << <<105, 116>>, <<120>> >>, << <<100, 45>> >>}
Rdata == [r \in {<<1, FooBar>>, <<28, FooBar>>, <<16, FooBar>>, <<1, ItX>>} |->
             CASE r[1] = 1 -> <<192, 168, 1, 1>>
               [] r[1] = 28 -> <<254, 128, 1>>
               [] r[1] = 16 -> <<3, 97, 98, 99>>]
Questions == [labels : Labels, type : {1, 2, 16}]
OneOrTwo == {<<a>> : a \in Questions} \cup {<<a, b>> : a, b \in Questions}

\* Five bytes in blocks of three, over nothing, less, or more than that.
FiveBytes == <<1, 2, 3, 4, 5>>
Contents == {<<>>, <<0, 0>>, <<0, 0, 0, 0, 0, 0, 0>>}
=============================================================================
