CONSTANTS
    Aead <- MCAead
    Offers <- MCOffers
    SeqMod = 8
    MaxRekeys = 2
    MaxSends = 2
SPECIFICATION FairSpec
CHECK_DEADLOCK FALSE
INVARIANTS PacketsFit OrderedDelivery HostVerifiedFirst ExchangesAgree
PROPERTY ExchangeEnds
