---- MODULE MCReminders ----
(* Two users with up to two devices between them, two runs that may overlap. *)
EXTENDS Reminders, TLC

CONSTANTS ann, bob

BothUsers == {ann, bob}
TwoDevices == {"phone", "laptop"}
BobStuck == {bob}

AnnsOrShared == {[e \in TwoDevices |-> ann], "phone" :> ann @@ "laptop" :> bob}

============================
