------------------------------- MODULE Access -------------------------------
(***************************************************************************)
(* Whom a request speaks for, what he may do, and the status of what he    *)
(* gets: get_current_user, require_permission and the error handlers.      *)
(*                                                                         *)
(* A request has headers: the internal secret, a bearer token, and the     *)
(* names of a user and a role.  How a token is decoded is left to the      *)
(* library; here it is signed, expired or forged, and names who it names.  *)
(***************************************************************************)
EXTENDS Integers, FiniteSets

CONSTANTS
    Lower,      \* the roles as they are written, in lower case
    Nobody      \* no header, no identity

\* Each action and the roles it takes.
ROUTE_PERMISSIONS ==
    LET staff == {"admin", "commander", "volunteer"}
    IN  [dashboard_view |-> {"admin"}, user_management |-> {"admin"},
         sell_entry_write |-> staff, inward_stock_write |-> {"admin"},
         volunteer_assignment |-> {"admin", "commander"}, backup |-> {"admin"},
         catalog_view |-> staff, location_overview |-> staff, master_data_write |-> staff,
         nidhi |-> staff, nidhi_approve |-> {"admin", "commander"},
         book_request_create |-> staff, book_request_history |-> {"admin"}]

CurrentUser(name, role) == [name |-> name, role |-> role]
Service == CurrentUser("internal-service", "service")

\* The secret of the other pods, when this one has it.
FromInternalSecret(h, keys) ==
    IF h.secret = "right" /\ "internal" \in keys THEN Service ELSE Nobody

\* A token that is none, or names nobody, is nobody's; an expired one is an error.
FromBearer(t, keys, expired) ==
    IF "jwt" \notin keys \/ ~t.signed \/ t.name = Nobody \/ t \in expired THEN Nobody
    ELSE CurrentUser(t.name, IF t.role = Nobody THEN "user" ELSE Lower[t.role])

FromHeaders(h) ==
    IF h.user = Nobody THEN Nobody
    ELSE CurrentUser(h.user, IF h.role = Nobody THEN "user" ELSE Lower[h.role])

\* get_current_user: the secret, then the token, then the plain headers, and a token
\* that fails is the end of it (mutant: the plain headers are tried after all).
CurrentFallsThrough(h, keys, expired) ==
    LET tries == <<FromInternalSecret(h, keys),
                   IF h.token = Nobody THEN Nobody ELSE FromBearer(h.token, keys, expired),
                   FromHeaders(h)>>
        hits == {i \in 1 .. 3 : tries[i] # Nobody}
    IN  IF hits = {} THEN Nobody ELSE tries[CHOOSE i \in hits : \A j \in hits : i <= j]
Current(h, keys, expired) ==
    LET pod == FromInternalSecret(h, keys)
    IN  IF pod # Nobody THEN pod
        ELSE IF h.token # Nobody THEN FromBearer(h.token, keys, expired)
        ELSE FromHeaders(h)

Allowed(user, action) == user.role \in ROUTE_PERMISSIONS[action]

\* What becomes of an exception that leaves a handler.
Status(raised) ==
    CASE raised = "core.ValidationError" -> 400
      [] raised = "AuthError" -> 401
      [] raised = "NotFoundError" -> 404
      [] OTHER -> 500
=============================================================================
