--------------------------- MODULE MCBookingCore ---------------------------
(* Small instances of BookingCore for TLC.                                 *)
EXTENDS BookingCore, TLC

\* Bookings, seats, orders and slots are interchangeable.
Symmetry == Permutations(Booking) \cup Permutations(Orders) \cup Permutations(Slots)
            \cup Permutations(Seats)
=============================================================================
