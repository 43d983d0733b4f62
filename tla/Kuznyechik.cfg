\* The AEAD on every plaintext of up to a block and on longer ones, and the cipher.
SPECIFICATION MCSpec
CONSTANTS
    blockSize = 4
    Top = 1
    rb <- MCReduction
    good = good  bad = bad
    Masters = {good}
    BadMasters = {bad}
    NoMaster = NoMaster
    encBlock <- MCEnc
    macBlock <- MCMac
    Plaintexts <- MCPlaintexts
    IVs <- MCIVs
    Version = 1
    OtherVersion = 2
    Keys <- MCKeys
    Sources <- MCSources
    Depth = 2
INVARIANTS OpensToThePlaintext GammaNeverRepeats TagIsCMAC CipherInverts CipherIsStandard
