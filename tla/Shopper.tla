------------------------------ MODULE Shopper ------------------------------
(***************************************************************************)
(* What one customer keeps: addresses and a picture (users.service.ts),    *)
(* the list of products to compare (marketplace.service.ts) and the return *)
(* of a delivered order (orders.service.ts).                               *)
(*                                                                         *)
(* Address changes lock the user's row and are one step each; the others   *)
(* read, and write later.  A process may stop between two steps.           *)
(***************************************************************************)
EXTENDS Naturals, Sequences, FiniteSets, FiniteSetsExt

CONSTANTS Windows,       \* concurrent HTTP handlers of the customer
          MaxAddresses,  \* bound: addresses at a time
          Pictures,      \* bound: uploads, as ids handed out in order
          Products,      \* products that can be compared
          CompareLimit,  \* 10
          MaxClicks      \* bound: two-step requests

ASSUME ShopperAssumption ==
  /\ MaxAddresses \in Nat /\ CompareLimit \in Nat /\ 0 \notin Pictures
  /\ IsFiniteSet(Windows)

VARIABLES addresses,  \* Address rows: id |-> "none", "plain" or "default"
          avatar,     \* User.avatarUrl, 0 before there is one
          uploads,    \* Upload rows of type PROFILE_PHOTO, oldest first
          files,      \* pictures in storage
          compared,   \* CompareItem rows
          returns,    \* OrderReturn rows, PENDING or APPROVED
          window,     \* what each handler has read and does next
          clicks,     \* two-step requests so far (bound)
          cleared     \* history: the customer said that no address is the default

shopperVars == <<addresses, avatar, uploads, files, compared, returns, window,
                 clicks, cleared>>

AddressIds == 1..MaxAddresses
Closed == [step |-> "closed", item |-> 0, previous |-> 0]

ShopperInit ==
  /\ addresses = [i \in AddressIds |-> "none"]
  /\ avatar = 0 /\ uploads = <<>> /\ files = {}
  /\ compared = {} /\ returns = 0
  /\ window = [w \in Windows |-> Closed]
  /\ clicks = 0 /\ cleared = FALSE

-----------------------------------------------------------------------------
(* Addresses, under the lock of the user's row.                            *)

Kept == {i \in AddressIds : addresses[i] # "none"}
Defaults == {i \in Kept : addresses[i] = "default"}

FaultyUndefaulted(i) == addresses[i]
Undefaulted(i) == IF addresses[i] = "default" THEN "plain" ELSE addresses[i]

\* The new row gets the next id; `wish' is the isDefault of the form.
AddAddress(wish) ==
  /\ \E i \in AddressIds :
       LET isDefault == IF wish = "absent" THEN Kept = {} ELSE wish = "yes" IN
       /\ addresses[i] = "none" /\ \A j \in Kept : j < i
       /\ addresses' = [j \in AddressIds |->
            IF j = i THEN (IF isDefault THEN "default" ELSE "plain")
            ELSE IF isDefault THEN Undefaulted(j) ELSE addresses[j]]
  /\ cleared' = (cleared \/ wish = "no")
  /\ UNCHANGED <<avatar, uploads, files, compared, returns, window, clicks>>

\* isDefault is written as it was sent, true or false.
UpdateAddress(i, wish) ==
  /\ i \in Kept
  /\ addresses' = [j \in AddressIds |->
       IF j = i THEN CASE wish = "yes" -> "default" [] wish = "no" -> "plain"
                       [] OTHER -> addresses[i]
       ELSE IF wish = "yes" THEN Undefaulted(j) ELSE addresses[j]]
  /\ cleared' = (cleared \/ wish = "no")
  /\ UNCHANGED <<avatar, uploads, files, compared, returns, window, clicks>>

\* The newest of the others replaces a default that is deleted.
NextDefault(i) ==
  IF i \in Defaults /\ Kept # {i} THEN {Max(Kept \ {i})} ELSE {}

DeleteAddress(i) ==
  /\ i \in Kept
  /\ addresses' = [j \in AddressIds |-> IF j = i THEN "none"
                                        ELSE IF j \in NextDefault(i) THEN "default"
                                        ELSE addresses[j]]
  /\ UNCHANGED <<avatar, uploads, files, compared, returns, window, clicks, cleared>>

-----------------------------------------------------------------------------
OpenWindow(w, rec) ==
  /\ window[w] = Closed /\ clicks < MaxClicks
  /\ window' = [window EXCEPT ![w] = rec]
  /\ clicks' = clicks + 1
CloseWindow(w) == window' = [window EXCEPT ![w] = Closed]

(* The picture: stored, the previous one looked up, the row and the user   *)
(* written together, the previous one destroyed in the background.         *)

Taken == files \cup {uploads[i] : i \in DOMAIN uploads}

UploadPicture(w) ==
  /\ \E f \in Pictures \ Taken :
       /\ \A g \in Pictures : g < f => g \in Taken
       /\ files' = files \cup {f}
       /\ OpenWindow(w, [Closed EXCEPT !.step = "previous", !.item = f])
  /\ UNCHANGED <<addresses, avatar, uploads, compared, returns, cleared>>

PreviousPicture(w) ==
  /\ window[w].step = "previous"
  /\ window' = [window EXCEPT ![w].step = "save",
                              ![w].previous = IF uploads = <<>> THEN 0 ELSE uploads[Len(uploads)]]
  /\ UNCHANGED <<addresses, avatar, uploads, files, compared, returns, clicks, cleared>>

FaultyAvatarAfter(w) == IF avatar = 0 THEN window[w].item ELSE avatar
AvatarAfter(w) == window[w].item

UpdateAvatar(w) ==
  /\ window[w].step = "save"
  /\ uploads' = Append(uploads, window[w].item)
  /\ avatar' = AvatarAfter(w)
  /\ window' = [window EXCEPT ![w].step = "destroy"]
  /\ UNCHANGED <<addresses, files, compared, returns, clicks, cleared>>

\* A failure of the storage is ignored.
DestroyPrevious(w) ==
  /\ window[w].step = "destroy"
  /\ \/ files' = files \ {window[w].previous}
     \/ UNCHANGED files
  /\ CloseWindow(w)
  /\ UNCHANGED <<addresses, avatar, uploads, compared, returns, clicks, cleared>>

-----------------------------------------------------------------------------
(* The comparison and the return.                                          *)

FaultyRoomToCompare == TRUE
RoomToCompare == Cardinality(compared) < CompareLimit

AddCompareRead(w, p) ==
  /\ RoomToCompare
  /\ OpenWindow(w, [Closed EXCEPT !.step = "compare", !.item = p])
  /\ UNCHANGED <<addresses, avatar, uploads, files, compared, returns, cleared>>

\* An upsert: a product is on the list once.
AddCompare(w) ==
  /\ window[w].step = "compare"
  /\ compared' = compared \cup {window[w].item}
  /\ CloseWindow(w)
  /\ UNCHANGED <<addresses, avatar, uploads, files, returns, clicks, cleared>>

RemoveCompare(p) ==
  /\ p \in compared
  /\ compared' = compared \ {p}
  /\ UNCHANGED <<addresses, avatar, uploads, files, returns, window, clicks, cleared>>

FaultyReturnable == TRUE
\* requestReturn, of a delivered order within the window of 14 days.
Returnable == returns = 0

ReturnRead(w) ==
  /\ Returnable
  /\ OpenWindow(w, [Closed EXCEPT !.step = "return"])
  /\ UNCHANGED <<addresses, avatar, uploads, files, compared, returns, cleared>>

RequestReturn(w) ==
  /\ window[w].step = "return"
  /\ returns' = returns + 1
  /\ CloseWindow(w)
  /\ UNCHANGED <<addresses, avatar, uploads, files, compared, clicks, cleared>>

\* The process stops: the handler is gone, what it wrote stays.
ShopperStops(w) ==
  /\ window[w] # Closed
  /\ CloseWindow(w)
  /\ UNCHANGED <<addresses, avatar, uploads, files, compared, returns, clicks, cleared>>

ShopperNext ==
  \/ \E wish \in {"yes", "no", "absent"} :
       AddAddress(wish) \/ \E i \in AddressIds : UpdateAddress(i, wish)
  \/ \E i \in AddressIds : DeleteAddress(i)
  \/ \E p \in Products : RemoveCompare(p) \/ \E w \in Windows : AddCompareRead(w, p)
  \/ \E w \in Windows :
       \/ UploadPicture(w) \/ PreviousPicture(w) \/ UpdateAvatar(w) \/ DestroyPrevious(w)
       \/ AddCompare(w) \/ ReturnRead(w) \/ RequestReturn(w)
       \/ ShopperStops(w)

ShopperSpec == ShopperInit /\ [][ShopperNext]_shopperVars

-----------------------------------------------------------------------------
(* Properties.                                                             *)

\* Whatever is added, edited and deleted, at most one address is the default
\* that checkout takes, and there is one unless the customer sent isDefault
\* as false.
OneDefaultAddress ==
  /\ Cardinality(Defaults) <= 1
  /\ Kept # {} /\ ~cleared => Defaults # {}

\* However uploads overlap, fail or stop half-way, the picture the profile
\* shows is never the one that was destroyed.
AvatarIsStored == avatar # 0 => avatar \in files

\* "You can compare a maximum of 10 products": every request looks before it
\* adds, so however often requests overlap and products come and go, the list
\* exceeds the limit only by the requests that can be under way beside the
\* one that took the last place.
CompareWithinLimit ==
  Cardinality(compared) > CompareLimit
    => Cardinality(compared) < CompareLimit + Cardinality(Windows)

\* "An active return request already exists": all active returns of an order
\* were asked for by requests that were under way together before the first
\* was written, never by a later one.
OneActiveReturn == returns <= Cardinality(Windows)

\* The rows of one customer obey their limits, but for requests that all looked
\* before the first wrote.
ShopperRowsAreSound ==
  OneDefaultAddress /\ AvatarIsStored /\ CompareWithinLimit /\ OneActiveReturn
=============================================================================
