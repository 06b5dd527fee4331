\* Every uint64 memQuota; negative, zero, unit and above-unit ratios.
CONSTANTS
    WordBits = 4
    MemQuotas <- MCAllMemQuotas
    Percents <- MCSignPercents
SPECIFICATION Spec
INVARIANT QuotaSignsAsSpecified
