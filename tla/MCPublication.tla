---------------------------- MODULE MCPublication ----------------------------
EXTENDS Publication

TwoArches == {"x86_64", "aarch64"}
OneArch64 == {"x86_64"}

Item(n, s, v, b) == [name |-> n, store |-> s, ver |-> v, build |-> b]
Listed(s, v, b) == [store |-> s, ver |-> v, build |-> b]
All(e) == [a \in Arches |-> [n \in Names |-> IF n = "foo" THEN e ELSE NoEntry]]

Fresh == [db |-> [a \in Arches |-> NoPackage], stored |-> Arches]
WithAny == [db |-> All(Listed("any", 1, 1)), stored |-> Arches]
WithConcrete == [db |-> [a \in Arches |-> [n \in Names |-> IF n = "foo" THEN Listed(a, 1, 1) ELSE NoEntry]],
                 stored |-> Arches]
\* Only x86_64 is there yet.
Young == [db |-> [WithAny.db EXCEPT !["aarch64"] = NoPackage], stored |-> {"x86_64"}]

AtStart == {Fresh, WithAny, WithConcrete}
OnlyAny == {WithAny}
AnyOrConcrete == {WithAny, WithConcrete}
AnyOrYoung == {WithAny, Young}
OnlyYoung == {Young}

ByNumber == <<1, 2>>
\* 9-1 and 10-1, say.
ByName == <<2, 1>>

AnyFoo == {<<Item("foo", "any", v, b)>> : v \in Versions, b \in Builds}
Mixed == {<<Item("foo", "any", 1, 1)>>, <<Item("foo", "any", 2, 1)>>,
          <<Item("foo", "x86_64", 2, 1)>>,
          <<Item("foo", "any", 2, 1), Item("bar", "x86_64", 1, 1)>>}
Rebuilt == {<<Item("foo", "any", 2, 1)>>, <<Item("foo", "any", 2, 2)>>,
            <<Item("foo", "aarch64", 1, 1), Item("bar", "any", 1, 1)>>}
Growing == {<<Item("foo", "any", 2, 1)>>, <<Item("bar", "aarch64", 1, 1)>>}
NoBatch == {<<>>}

AnyRequest == {[name |-> "foo", arch |-> a] : a \in {"any"} \cup Arches}
==============================================================================
