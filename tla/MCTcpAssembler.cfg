CONSTANTS
    Sport = {4660}
    Dport = {443}
    SeqNum = {0, 2147483647}
    Win = {0, 65535}
    OptionLists <- MCOptionLists
    Payload <- MCPayload
    PshdrSum = {98765}
    Mac <- MCMac
    Ip4 <- MCIp4
    Oper = {0, 1, 2, 3}

SPECIFICATION MCSpec
INVARIANT MCTypeOK
INVARIANT HeaderFieldsDecode
INVARIANT ChecksumVerifies
INVARIANT ArpFrameDecodes
