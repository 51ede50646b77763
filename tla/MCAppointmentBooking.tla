------------------------ MODULE MCAppointmentBooking ------------------------
(* Small instances of AppointmentBooking for TLC. *)
EXTENDS AppointmentBooking, TLC
CONSTANTS u1, u2, c1, c2, c3, a1, a2, a3, b1
MCSymmetry == Permutations(Staff) \cup Permutations(Assignees) \cup Permutations(Contacts)
=============================================================================
