------------------------------ MODULE Registry ------------------------------
(***************************************************************************)
(* The lists of callbacks of dispatcher.go and bus.go at one type, as Go   *)
(* keeps them: a slice is a length and a reference to an array, append     *)
(* writes into the array if there is room in it, and a reader that took    *)
(* the slice under the lock reads the array without it.  A callback is the *)
(* number of its registration, and 0 in a cell that was never written.     *)
(***************************************************************************)
EXTENDS Naturals, Sequences

CONSTANTS
    Already,            \* callbacks that are registered in the beginning
    Registrations       \* bound of the number of registrations

\* Three are as many as append has just made a new array for.
ASSUME RegistryAssumption == Already \in 0 .. 3 /\ Registrations \in Nat

VARIABLES
    arrays,         \* arrays that append made
    list,           \* the slice m[t]; array 0 is none
    registered      \* number of registrations

regVars == <<arrays, list, registered>>

Nil == [array |-> 0, len |-> 0]

Capacity(s) == IF s.array = 0 THEN 0 ELSE Len(arrays[s.array])

\* What a reader of the slice s finds.
Content(s) == IF s.array = 0 THEN << >> ELSE SubSeq(arrays[s.array], 1, s.len)

\* A larger array with the callbacks of s and v.
Grown(s, v) ==
    Content(s) \o <<v>> \o [i \in 1 .. (IF s.len = 0 THEN 0 ELSE s.len - 1) |-> 0]

RegInit ==
    /\ arrays = IF Already = 0 THEN << >>
                ELSE << [i \in 1 .. (IF Already = 3 THEN 4 ELSE Already) |->
                            IF i <= Already THEN i ELSE 0] >>
    /\ list = [array |-> IF Already = 0 THEN 0 ELSE 1, len |-> Already]
    /\ registered = Already

\* m[t] = append(m[t], callback)
Put ==
    /\ registered < Registrations
    /\ registered' = registered + 1
    /\ list' = [array |-> IF list.len < Capacity(list) THEN list.array ELSE Len(arrays) + 1,
                len   |-> list.len + 1]
    /\ arrays' = IF list.len < Capacity(list)
                 THEN [arrays EXCEPT ![list.array][list.len + 1] = registered']
                 ELSE Append(arrays, Grown(list, registered'))

\* Mutant: the list is emptied and its array used again.
Truncate == list' = [list EXCEPT !.len = 0] /\ UNCHANGED <<arrays, registered>>

\* delete(m, t)
Delete == list' = Nil /\ UNCHANGED <<arrays, registered>>
=============================================================================
