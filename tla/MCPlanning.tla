------------------------------- MODULE MCPlanning -------------------------------
(* Answers of the model for the instance: right plans, and every slip the code  *)
(* has a check for, in all the combinations of three steps.                     *)
EXTENDS Planning, TLC
T(id, tool, deps, input) == [id |-> id, tool |-> tool, deps |-> deps, input |-> input]
None == [f \in {} |-> Lit("said")]
One(f, ws) == {None} \cup {f :> Lit(w) : w \in ws}
Mixed(A, B) == {a @@ b : a \in A, b \in B}
Vehicles == {T(1, "register_vehicle", d, i) :
  d \in {{}, {3}}, i \in Mixed(One("plate_number", {"said"}), One("resident_id", {"known", "invented"}))
                         \cup {"plate_number" :> Lit(w) : w \in {"remembered", "unreadable"}}}
Bookings == {T(2, "book_parking", d, i) :
  d \in {{}, {1}, {2}},
  i \in Mixed({None, "vehicle_id" :> InputRef(1, "vehicle_id"), "vehicle_id" :> InputRef(1, "amount")},
              One("booking_date", {"said"}))}
Fees(b) == {T(3, "pay_fee", d, i) :
  d \in {{}, {b}},
  i \in Mixed({None, "booking_id" :> InputRef(b, "booking_id"), "booking_id" :> InputRef(1, "vehicle_id")},
              {None, "amount" :> InputRef(b, "amount"), "amount" :> Lit("invented")})}
Earlier == T(3, "pay_fee", {}, [f \in Money |-> Lit("known")])
Second == T(4, "book_parking", {1}, ("vehicle_id" :> InputRef(1, "vehicle_id")) @@ ("booking_date" :> Lit("said")))
Moves == {<<T(1, "schedule_move", {}, i)>> : i \in One("move_origin_id", {"said", "elsewhere"})}
Plans == {<<v>> : v \in Vehicles} \cup {<<b>> : b \in Bookings} \cup {<<v, b>> : v \in Vehicles, b \in Bookings}
         \cup {<<v, b, f>> : v \in Vehicles, b \in Bookings, f \in Fees(2)}
         \cup {<<v, b, f, Second>> : v \in {w \in Vehicles : w.deps = {}}, b \in {c \in Bookings : c.deps = {1}}, f \in Fees(2) \cup Fees(4)}
         \cup {<<Earlier>>} \cup {<<v, b, Earlier>> : v \in {w \in Vehicles : w.deps = {}}, b \in {c \in Bookings : c.deps = {1}}}
         \cup {<<v, [v EXCEPT !.deps = {}]>> : v \in Vehicles}
         \cup Moves \cup {<<T(1, "register_resident", {}, None)>>}
R(s, p, m, f) == [status |-> s, plan |-> p, missing |-> m, facts |-> f]
Answers == {R("READY", p, {}, "quoted") : p \in Plans}
  \cup {R("NEEDS_INFORMATION", <<>>, m, "none") :
          m \in {{"plate_number"}, {"plate_number", "booking_date"}, {"vehicle_id"}, {"amount"}, {"resident_id"},
                 {"unsupported_goal"}, {"move_origin_id"}}}
  \cup {R("QUESTION", <<>>, {}, "none"), R("MALFORMED", <<>>, {}, "none"), R("QUESTION", <<>>, {}, "unquoted")}
Found == {[f \in d |-> IF f = "move_origin_id" THEN w ELSE "said"] :
            d \in SUBSET {"plate_number", "booking_date", "move_origin_id"}, w \in {"said", "elsewhere"}}
Guesses == {[tools |-> t, found |-> f] : t \in {{}, {"register_vehicle"}, {"book_parking"}, {"schedule_move"}, {"book_parking", "schedule_move"}}, f \in Found}
\* The last one after a workflow that booked (_load_parent_success_context).
Knowledge == {{}, {"resident_id"}, {"resident_id", "plate_number"}, {"resident_id"} \cup Money}
================================================================================
