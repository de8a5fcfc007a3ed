-------------------------------- MODULE Promo --------------------------------
(***************************************************************************)
(* Coupons and referrals: services/promo, the coupon box of the checkout   *)
(* page, the offers page, the campaigns page of the platform and the       *)
(* invitations of the account page.                                        *)
(*                                                                         *)
(* A checkout prices its coupon, makes the booking and only then claims    *)
(* the redemption: four transactions of httpapi/booking.go, between which  *)
(* other checkouts take theirs.  The discount itself is a number no        *)
(* property is about; whether the coupon fits the booking (minimum fare,   *)
(* operator, route, channel, provider, new passengers) is a field of the   *)
(* campaign.                                                               *)
(***************************************************************************)
EXTENDS Integers, FiniteSets

CONSTANTS
    Codes,          \* coupon codes
    Phones,         \* passengers: user_key is the phone typed into the form
    Purchases,      \* checkouts, each one booking
    Caps,           \* max_redemptions of the campaigns made
    NoCap,          \* no max_redemptions
    Invitations,    \* rows of promo.referrals
    NoCoupon          \* the empty coupon box

PerUserLimit == 1   \* what the campaigns page sends

ASSUME PromoAssumption == Phones # {} /\ Caps \subseteq Nat

VARIABLES
    campaign,       \* campaign[c]: the row of promo.campaigns
    used,           \* used[c][p]: promo.user_usage
    redemption,     \* promo.redemptions: code, phone and purchase
    purchase,       \* purchase[b]: a checkout, the page's part and the handler's
    offers,         \* the offers page
    promoDesk,      \* the campaigns page
    invitation      \* invitation[i]: a row of promo.referrals

couponVars == <<campaign, used, redemption, purchase>>
promoVars  == <<couponVars, offers, promoDesk, invitation>>

Unmade  == [made |-> FALSE, over |-> FALSE, fits |-> FALSE, cap |-> NoCap, redeemed |-> 0]
NewBuy  == [at |-> "form", code |-> NoCoupon, phone |-> CHOOSE p \in Phones : TRUE,
            off |-> FALSE, saw |-> 0]
NoInvite == [status |-> "none", by |-> NewBuy.phone, to |-> NewBuy.phone]

\* The type of the state.
PromoTypeOK ==
    /\ campaign \in [Codes -> [made : BOOLEAN, over : BOOLEAN, fits : BOOLEAN,
                               cap : Caps \cup {NoCap}, redeemed : Nat]]
    /\ used \in [Codes -> [Phones -> Nat]]
    /\ redemption \subseteq [code : Codes, phone : Phones, of : Purchases]
    /\ purchase \in [Purchases -> [at : {"form", "sent", "priced", "booked", "loaded", "made"},
                                   code : Codes \cup {NoCoupon}, phone : Phones,
                                   off : BOOLEAN, saw : Nat]]
    /\ offers \in [at : {"loading", "shown", "error"}, rows : SUBSET Codes,
                   copied : Codes \cup {NoCoupon}]
    /\ promoDesk \in [rows : SUBSET Codes, flash : {"", "created", "refused"},
                      error : BOOLEAN, busy : BOOLEAN]
    /\ invitation \in [Invitations -> [status : {"none", "INVITED", "REGISTERED"},
                                       by : Phones, to : Phones]]

PromoInit ==
    /\ campaign = [c \in Codes |-> Unmade]
    /\ used = [c \in Codes |-> [p \in Phones |-> 0]]
    /\ redemption = {}
    /\ purchase = [b \in Purchases |-> NewBuy]
    /\ offers = [at |-> "loading", rows |-> {}, copied |-> NoCoupon]
    /\ promoDesk = [rows |-> {}, flash |-> "", error |-> FALSE, busy |-> TRUE]
    /\ invitation = [i \in Invitations |-> NoInvite]

-----------------------------------------------------------------------------
(* The campaigns page                                                       *)

Current(c) == campaign[c].made /\ ~ campaign[c].over

\* Offers: active and not ended, whatever is left of them.
Listed == {c \in Codes : Current(c)}

\* load(): the campaigns come, the referrals or an empty list with them.
CampaignsCome ==
    /\ promoDesk.busy
    /\ promoDesk' = [promoDesk EXCEPT !.rows = Listed, !.busy = FALSE]
    /\ UNCHANGED <<couponVars, offers, invitation>>

\* Nothing takes the error away again: the Retry of the notice loads, and the page
\* goes on showing the notice.
CampaignsFail ==
    /\ promoDesk.busy
    /\ promoDesk' = [promoDesk EXCEPT !.error = TRUE, !.busy = FALSE]
    /\ UNCHANGED <<couponVars, offers, invitation>>

RetryCampaigns ==
    /\ promoDesk.error /\ ~ promoDesk.busy
    /\ promoDesk' = [promoDesk EXCEPT !.busy = TRUE]
    /\ UNCHANGED <<couponVars, offers, invitation>>

\* Instead of the page, an error or a skeleton: without a campaign there is no form
\* to make one with.
FormThere == ~ promoDesk.error /\ (promoDesk.rows # {} \/ promoDesk.flash # "")

\* handleCreateCampaign from the form: the code is unique, ended campaigns included.
\* The first campaigns come from the migration or from another client.
CreateCampaign(c, n, f, byPage) ==
    /\ byPage => FormThere /\ ~ promoDesk.busy
    /\ ~ byPage => ~ campaign[c].made
    /\ campaign' = IF campaign[c].made THEN campaign
                   ELSE [campaign EXCEPT ![c] = [made |-> TRUE, over |-> FALSE, fits |-> f,
                                                 cap |-> n, redeemed |-> 0]]
    /\ promoDesk' = IF ~ byPage THEN promoDesk
                    ELSE IF campaign[c].made THEN [promoDesk EXCEPT !.flash = "refused"]
                    ELSE [promoDesk EXCEPT !.flash = "created", !.busy = TRUE]
    /\ UNCHANGED <<used, redemption, purchase, offers, invitation>>

\* ends_at passes.
CampaignEnds(c) ==
    /\ Current(c)
    /\ campaign' = [campaign EXCEPT ![c].over = TRUE]
    /\ UNCHANGED <<used, redemption, purchase, offers, promoDesk, invitation>>

-----------------------------------------------------------------------------
(* The offers page                                                          *)

OffersCome ==
    /\ offers.at = "loading"
    /\ offers' = [offers EXCEPT !.at = "shown", !.rows = Listed]
    /\ UNCHANGED <<couponVars, promoDesk, invitation>>

OffersFail ==
    /\ offers.at = "loading"
    /\ offers' = [offers EXCEPT !.at = "error"]
    /\ UNCHANGED <<couponVars, promoDesk, invitation>>

\* The button of a coupon on the page: its code is in the clipboard, and the button
\* says so for two seconds.
CopyCode(c) ==
    /\ c \in offers.rows
    /\ offers' = [offers EXCEPT !.copied = c]
    /\ UNCHANGED <<couponVars, promoDesk, invitation>>

CopiedFades ==
    /\ offers.copied # NoCoupon
    /\ offers' = [offers EXCEPT !.copied = NoCoupon]
    /\ UNCHANGED <<couponVars, promoDesk, invitation>>

-----------------------------------------------------------------------------
(* The checkout                                                             *)

Fresh == <<campaign, used, redemption, offers, promoDesk, invitation>>

\* The box takes any code, one from the offers or one from a ticket or a chat.
EnterCode(b, c) ==
    /\ purchase[b].at = "form" /\ purchase[b].code # c
    /\ purchase' = [purchase EXCEPT ![b].code = c]
    /\ UNCHANGED Fresh

\* The redemption is counted under the phone number of the form.
SubmitPurchase(b, p) ==
    /\ purchase[b].at = "form"
    /\ purchase' = [purchase EXCEPT ![b].at = "sent", ![b].phone = p]
    /\ UNCHANGED Fresh

Full(c) == campaign[c].cap # NoCap /\ campaign[c].redeemed >= campaign[c].cap

\* load and eligible
Eligible(c) == Current(c) /\ campaign[c].fits /\ ~ Full(c)

\* Preview: a code that is refused stops the booking (400 coupon_invalid), and the
\* form shows why.
Preview(b) ==
    /\ purchase[b].at = "sent"
    /\ LET c == purchase[b].code IN
         purchase' = [purchase EXCEPT ![b] =
           IF c = NoCoupon THEN [@ EXCEPT !.at = "priced"]
           ELSE IF Eligible(c) THEN [@ EXCEPT !.at = "priced", !.off = TRUE]
           ELSE [@ EXCEPT !.at = "form"]]
    /\ UNCHANGED Fresh

\* com.CreateBooking at the discounted total; without a coupon nothing follows.
Book(b) ==
    /\ purchase[b].at = "priced"
    /\ purchase' = [purchase EXCEPT ![b].at = IF purchase[b].code = NoCoupon THEN "made" ELSE "booked"]
    /\ UNCHANGED Fresh

\* Claim begins with the load and the check of Preview, in no transaction.
LoadCampaign(b) ==
    /\ purchase[b].at = "booked"
    /\ LET c == purchase[b].code IN
         purchase' = [purchase EXCEPT ![b].at = IF Eligible(c) THEN "loaded" ELSE "made",
                                      ![b].saw = campaign[c].redeemed]
    /\ UNCHANGED Fresh

Redeem(b, n) ==
    LET c == purchase[b].code
        p == purchase[b].phone
    IN  /\ campaign' = [campaign EXCEPT ![c].redeemed = n]
        /\ used' = [used EXCEPT ![c][p] = @ + 1]
        /\ redemption' = redemption \cup {[code |-> c, phone |-> p, of |-> b]}

\* Mutant of Redemption: the counter is written from the value that was loaded.
RedemptionFromLoaded(b) ==
    /\ purchase[b].at = "loaded"
    /\ purchase' = [purchase EXCEPT ![b].at = "made"]
    /\ IF Current(purchase[b].code) /\ used[purchase[b].code][purchase[b].phone] < PerUserLimit
       THEN Redeem(b, purchase[b].saw + 1)
       ELSE UNCHANGED <<campaign, used, redemption>>
    /\ UNCHANGED <<offers, promoDesk, invitation>>

\* The transaction of Claim: both counters move under their conditions, or neither
\* does.  A refusal is logged: the booking keeps the discount it was quoted.
Redemption(b) ==
    /\ purchase[b].at = "loaded"
    /\ purchase' = [purchase EXCEPT ![b].at = "made"]
    /\ LET c == purchase[b].code IN
         IF used[c][purchase[b].phone] < PerUserLimit /\ Current(c) /\ ~ Full(c)
         THEN Redeem(b, campaign[c].redeemed + 1)
         ELSE UNCHANGED <<campaign, used, redemption>>
    /\ UNCHANGED <<offers, promoDesk, invitation>>

\* The process stops, or the database fails: before the booking the form is there
\* again, after it the booking is, with nothing claimed.
Interrupted(b) ==
    /\ purchase[b].at \in {"sent", "priced", "booked", "loaded"}
    /\ purchase' = [purchase EXCEPT ![b] =
         IF @.at \in {"sent", "priced"} THEN [@ EXCEPT !.at = "form", !.off = FALSE]
         ELSE [@ EXCEPT !.at = "made"]]
    /\ UNCHANGED Fresh

-----------------------------------------------------------------------------
(* Invitations                                                              *)

OpenInvite(p) == \E i \in Invitations : invitation[i].status = "INVITED" /\ invitation[i].by = p

\* GET /referrals/me of the account page: the passenger's open invitation, or a new
\* one.
Invite(i, p) ==
    /\ invitation[i].status = "none" /\ ~ OpenInvite(p)
    /\ invitation' = [invitation EXCEPT ![i] = [status |-> "INVITED", by |-> p, to |-> p]]
    /\ UNCHANGED <<couponVars, offers, promoDesk>>

\* Nothing calls Qualify: this is as far as an invitation comes.
Accept(i, p) ==
    /\ invitation[i].status = "INVITED" /\ invitation[i].by # p
    /\ invitation' = [invitation EXCEPT ![i].status = "REGISTERED", ![i].to = p]
    /\ UNCHANGED <<couponVars, offers, promoDesk>>

-----------------------------------------------------------------------------
PromoNext ==
    \/ CampaignsCome \/ CampaignsFail \/ RetryCampaigns
    \/ OffersCome \/ OffersFail \/ CopiedFades
    \/ \E c \in Codes : CampaignEnds(c) \/ CopyCode(c)
    \/ \E c \in Codes, n \in Caps \cup {NoCap}, f, byPage \in BOOLEAN :
          CreateCampaign(c, n, f, byPage)
    \/ \E b \in Purchases :
          \/ Preview(b) \/ Book(b) \/ LoadCampaign(b) \/ Redemption(b) \/ Interrupted(b)
          \/ \E c \in Codes \cup {NoCoupon} : EnterCode(b, c)
          \/ \E p \in Phones : SubmitPurchase(b, p)
    \/ \E i \in Invitations, p \in Phones : Invite(i, p) \/ Accept(i, p)

PromoSpec == PromoInit /\ [][PromoNext]_promoVars

-----------------------------------------------------------------------------
(* Properties                                                               *)

\* However checkouts overlap, the counter of a campaign is the number of its
\* redemptions and never above the cap, and a passenger's counter is the number of
\* theirs and never above the limit (promo.go:158-225).  The CHECK of the table
\* stops a counter above the cap, not one that has lost an increment.
RedemptionsAreHonest ==
    \A c \in Codes :
       /\ campaign[c].redeemed = Cardinality({r \in redemption : r.code = c})
       /\ campaign[c].cap # NoCap => campaign[c].redeemed <= campaign[c].cap
       /\ \A p \in Phones :
             /\ used[c][p] = Cardinality({r \in redemption : r.code = c /\ r.phone = p})
             /\ used[c][p] <= PerUserLimit

\* A discount is always redeemed: not what the code does (booking.go:333-341).
DiscountsAreRedeemed ==
    \A b \in Purchases : purchase[b].at = "made" /\ purchase[b].off =>
       \E r \in redemption : r.of = b
=============================================================================
